---- MODULE Spec2Model ----
(***************************************************************************)
(* A model of zerocloud's execution-dispatch middleware:                   *)
(*   - the rendezvous name service   (proxyquery.py, NameService)          *)
(*   - the cluster-configuration planner (configparser.py, parse)          *)
(*   - the orchestrator's control flow   (proxyquery.py, POST)             *)
(* Each component has its own specification (SpecNS, SpecParse, SpecPost)  *)
(* over the same variables; the variables a specification does not drive   *)
(* keep their initial values.                                              *)
(***************************************************************************)
EXTENDS Integers, Sequences, FiniteSets, TLC

\* ------------------------------------------------------------------ bounds
\* datagrams one name service receives in a run
MaxDatagrams == 4
\* the largest `count` of a job node
MaxCount == 2
\* the most objects a wildcard read path matches
MaxMatches == 2

\* ------------------------------------------------------------------ state
VARIABLES
    \* NameService fields
    peers, bind_map, conn_map, peer_map, ns_thread,
    \* the workers: the registration each peer id sent last, with its origin
    reg,
    \* replies handed to sock.sendto, in order
    sent,
    \* datagrams received so far
    ndgrams,
    \* the arguments of ClusterConfigParser.parse
    cluster_config, add_user_image, account_name, replica_count,
    \* ClusterConfigParser fields, and the connect_devices local of parse
    nodes, node_id, node_list, total_count, connect_devices,
    \* where parse stands: its phase, the job node its loop is at, and the
    \* message of the ClusterConfigParsingError it raised
    parse_pc, node_idx, parse_err,
    \* the ids of the replicas POST made of each worker (node.replicas)
    node_replicas,
    \* ClusterController.POST: where it stands, the status of the response it
    \* returned (0 while it runs), its user_image, data_sources and conns
    \* locals, the worker its loop is at, the data source it streams, and the
    \* paths of the objects it has sent a GET for
    post_pc, response, user_image, data_sources, conns, post_node, post_src,
    fetched,
    \* the body of that response, the source each node's last_data names,
    \* the kind of the Timeout that was raised last, the archive
    \* _process_response is working on, and the final response
    body, last_data, timeout, demux, final,
    \* prepare_zerovm_files: its config and use_dev_self arguments, its
    \* zerovm_inputmnfst, fstab, channels and network_devices locals, and the
    \* number of loop rounds and steps it has made
    config, use_dev_self, zerovm_inputmnfst, fstab, mnf_channels, network_devices,
    mnf_step,
    \* _connect_exec_node: what each candidate of obj_nodes answers, the
    \* candidate its loop is at, where it stands, the connection it returned,
    \* and the candidates that were error-limited or logged as failed
    obj_nodes, host_idx, connect_pc, exec_conn, error_limited, exceptions,
    \* parse_daemon_config: its daemon_list argument, the pair its loop is at,
    \* its socks and result locals, the warnings and infos it logged, and
    \* where it stands
    daemon_list, daemon_idx, socks, daemon_result, daemon_log, daemon_pc,
    \* SharedContainersMiddleware: its whitelist_url, the 'shared' metadata
    \* stored for the user's account, and the last request with the status of
    \* its response
    whitelist_url, shared_meta, shared_request, shared_status

nsVars == <<peers, bind_map, conn_map, peer_map, ns_thread, reg, sent, ndgrams>>

parseVars == <<cluster_config, add_user_image, account_name, replica_count,
               nodes, node_id, node_list, total_count, connect_devices,
               parse_pc, node_idx, parse_err, node_replicas>>

postVars == <<post_pc, response, user_image, data_sources, conns, post_node,
              post_src, fetched, body, last_data, timeout, demux, final>>

manifestVars == <<config, use_dev_self, zerovm_inputmnfst, fstab, mnf_channels,
                  network_devices, mnf_step>>

connectVars == <<obj_nodes, host_idx, connect_pc, exec_conn, error_limited, exceptions>>

daemonVars == <<daemon_list, daemon_idx, socks, daemon_result, daemon_log, daemon_pc>>

sharedVars == <<whitelist_url, shared_meta, shared_request, shared_status>>

vars == <<peers, bind_map, conn_map, peer_map, ns_thread, reg, sent, ndgrams,
          cluster_config, add_user_image, account_name, replica_count,
          nodes, node_id, node_list, total_count, connect_devices,
          parse_pc, node_idx, parse_err, node_replicas,
          post_pc, response, user_image, data_sources, conns, post_node,
          post_src, fetched, body, last_data, timeout, demux, final,
          config, use_dev_self, zerovm_inputmnfst, fstab, mnf_channels,
          network_devices, mnf_step,
          obj_nodes, host_idx, connect_pc, exec_conn, error_limited, exceptions,
          daemon_list, daemon_idx, socks, daemon_result, daemon_log, daemon_pc,
          whitelist_url, shared_meta, shared_request, shared_status>>

\* ------------------------------------------------------------- utilities
EmptyMap == [x \in {} |-> 0]

Put(f, k, v) == [x \in (DOMAIN f) \cup {k} |-> IF x = k THEN v ELSE f[x]]

Min(a, b) == IF a < b THEN a ELSE b

RECURSIVE SortedSeq(_)
\* the elements of a finite set of integers, ascending
SortedSeq(S) ==
    IF S = {} THEN <<>>
    ELSE LET m == CHOOSE x \in S : \A y \in S : x <= y
         IN <<m>> \o SortedSeq(S \ {m})

\* =========================================================================
\* Name service
\* =========================================================================
\* Source hosts of the workers, as the 32-bit value of their IPv4 address
\* (what struct.unpack_from('!I') reads from the 4 bytes inet_pton wrote).
\* 10.0.0.1 and 10.0.0.2
SourceHosts == {167772161, 167772162}
\* 127.0.0.1
Localhost == 2130706433
\* worker on host h sends from <<h, its port>>
SourceAddress(h) == <<h, 4000>>
\* the port worker p listens on
BindPort(p) == 5000 + p
\* the ids of the workers of the job; `peers` is their number
PeerIds == {1, 2}

\* A registration datagram: the three header integers and the 6-byte records
\* that follow them.  A bind record is <<connecting peer id, port>>, a connect
\* record <<target peer id, 0>>.  short = TRUE is a datagram of fewer than 12
\* bytes.  The declared counts may exceed the records present (truncation).
Msg(pid, bc, cc, recs) ==
    [short |-> FALSE, peer_id |-> pid, bind_count |-> bc,
     connect_count |-> cc, recs |-> recs]

ShortMsg == [short |-> TRUE, peer_id |-> 0, bind_count |-> 0,
             connect_count |-> 0, recs |-> <<>>]

\* the records a worker p sends: at most one bind record and one connect
\* record, each naming another peer
BindRecords(p) == {<<>>} \cup {<<(<<c, BindPort(p)>>)>> : c \in PeerIds \ {p}}

ConnectRecords(p) == {<<>>} \cup {<<(<<t, 0>>)>> : t \in PeerIds \ {p}}

\* the datagrams of peer p: the well-formed ones, the ones that declare one
\* record and end before it, and one shorter than its header
Datagrams(p) ==
    LET whole == {Msg(p, Len(b), Len(c), b \o c) :
                    b \in BindRecords(p), c \in ConnectRecords(p)}
        cut == {Msg(m.peer_id, m.bind_count, m.connect_count,
                    SubSeq(m.recs, 1, Len(m.recs) - 1)) :
                    m \in {w \in whole : Len(w.recs) = 1}}
    IN whole \cup cut \cup {ShortMsg}

\* a peer that has sent nothing yet
NoReg == [msg |-> ShortMsg, from |-> <<0, 0>>, any |-> FALSE]

\* NameService.__init__
NSInitFields(n) ==
    /\ peers = n
    /\ bind_map = EmptyMap
    /\ conn_map = EmptyMap
    /\ peer_map = EmptyMap
    /\ reg = [p \in PeerIds |-> NoReg]
    /\ sent = <<>>
    /\ ndgrams = 0

\* lines 150-153: the bind records that are present are stored one by one;
\* a missing record raises struct.error after the earlier ones were stored
RECURSIVE StoreBinds(_, _, _, _)
StoreBinds(bm, m, i, n) ==
    IF i > n THEN bm
    ELSE LET host == m.recs[i][1]
             port == m.recs[i][2]
             mine == IF m.peer_id \in DOMAIN bm THEN bm[m.peer_id] ELSE EmptyMap
         IN StoreBinds(Put(bm, m.peer_id, Put(mine, host, port)), m, i + 1, n)

BindsRaise(m) == m.bind_count > Len(m.recs)

\* line 166-171 for one connect slot of peer p: the port and the address
\* written into the slot
SlotPort(bm, host, p) == bm[host][p]

SlotHostNoCollapse(pm, host, p) == pm[host][1]

SlotHost(pm, host, p) ==
    IF pm[host][1] = pm[p][1] THEN Localhost ELSE pm[host][1]

\* lines 164-172: resolve the connect slots of reply buffer `reply` of peer
\* p in place, slot idx onward, `left` slots to go.  ok = FALSE when
\* unpack_from/pack_into runs past the buffer or a map lookup raises
\* KeyError; the slots already packed stay packed.
RECURSIVE ResolveSlots(_, _, _, _, _, _)
ResolveSlots(reply, p, idx, left, bm, pm) ==
    IF left = 0 THEN [ok |-> TRUE, reply |-> reply]
    ELSE IF idx > Len(reply.recs) THEN [ok |-> FALSE, reply |-> reply]
    ELSE LET host == reply.recs[idx][1]
         IN IF \/ host \notin DOMAIN bm
               \/ p \notin DOMAIN bm[host]
               \/ host \notin DOMAIN pm
            THEN [ok |-> FALSE, reply |-> reply]
            ELSE ResolveSlots(
                   [reply EXCEPT !.recs[idx] =
                       <<SlotHost(pm, host, p), SlotPort(bm, host, p)>>],
                   p, idx + 1, left - 1, bm, pm)

\* lines 161-174: the reply loop over peer_map.iterkeys().  CPython 2 keeps
\* small integer keys of a dict in ascending order.  An exception leaves the
\* loop: the peers not yet reached are sent nothing.
RECURSIVE SendReplies(_, _, _, _, _)
SendReplies(order, cm, out, bm, pm) ==
    IF order = <<>> THEN [conn_map |-> cm, sent |-> out]
    ELSE LET p == Head(order)
             e == cm[p]
             r == ResolveSlots(e.reply, p, e.offset + 1, e.connect_count, bm, pm)
             cm2 == [cm EXCEPT ![p].reply = r.reply]
         IN IF r.ok
            THEN SendReplies(Tail(order), cm2,
                             Append(out, [peer |-> p, to |-> pm[p],
                                          reply |-> r.reply]),
                             bm, pm)
            ELSE [conn_map |-> cm2, sent |-> out]

\* line 158
AllRegistered(pm, n) == Cardinality(DOMAIN pm) = n

\* One iteration of the loop of NameService._run (lines 139-181) for the
\* datagram m from address a.
NSReceive(m, a) ==
    /\ ns_thread = "running"
    /\ ndgrams < MaxDatagrams
    /\ ndgrams' = ndgrams + 1
    /\ UNCHANGED <<peers, ns_thread>>
    /\ UNCHANGED parseVars
    /\ UNCHANGED manifestVars
    /\ UNCHANGED connectVars
    /\ UNCHANGED postVars
    /\ UNCHANGED daemonVars
    /\ UNCHANGED sharedVars
    /\ IF m.short
       THEN UNCHANGED <<bind_map, conn_map, peer_map, sent>>
       ELSE LET bm == StoreBinds(bind_map, m, 1, Min(m.bind_count, Len(m.recs)))
            IN IF BindsRaise(m)
               THEN /\ bind_map' = bm
                    /\ UNCHANGED <<conn_map, peer_map, sent>>
               ELSE LET cm == Put(conn_map, m.peer_id,
                                  [connect_count |-> m.connect_count,
                                   offset |-> m.bind_count, reply |-> m])
                        pm == Put(peer_map, m.peer_id, a)
                        out == IF AllRegistered(pm, peers)
                               THEN SendReplies(SortedSeq(DOMAIN pm), cm, sent,
                                                bm, pm)
                               ELSE [conn_map |-> cm, sent |-> sent]
                    IN /\ bind_map' = bm
                       /\ peer_map' = pm
                       /\ conn_map' = out.conn_map
                       /\ sent' = out.sent

\* worker p sends registration m from host h
Register(p, m, h) ==
    /\ reg[p] # [msg |-> m, from |-> SourceAddress(h), any |-> TRUE]
    /\ reg' = [reg EXCEPT ![p] = [msg |-> m, from |-> SourceAddress(h),
                                  any |-> TRUE]]
    /\ NSReceive(m, SourceAddress(h))

\* worker p sends the registration it sent before once more
Resubmit(p) ==
    /\ reg[p].any
    /\ reg' = reg
    /\ NSReceive(reg[p].msg, reg[p].from)

NSRegister == \E p \in PeerIds, h \in SourceHosts : \E m \in Datagrams(p) : Register(p, m, h)

NSResubmit == \E p \in PeerIds : Resubmit(p)

\* NameService.stop (lines 183-185): the listener is killed, the socket closed
NSStop ==
    /\ ns_thread = "running"
    /\ ns_thread' = "killed"
    /\ UNCHANGED <<peers, bind_map, conn_map, peer_map, reg, sent, ndgrams>>
    /\ UNCHANGED parseVars
    /\ UNCHANGED manifestVars
    /\ UNCHANGED connectVars
    /\ UNCHANGED postVars
    /\ UNCHANGED daemonVars
    /\ UNCHANGED sharedVars

\* =========================================================================
\* Planner (ClusterConfigParser)
\* =========================================================================
\* Strings that may hold wildcards are sequences of tokens; the token "*" is
\* the wildcard character, every other token a run of ordinary characters.
Star == "*"

CountStars(s) == Cardinality({i \in 1..Len(s) : s[i] = Star})

HasStar(s) == \E i \in 1..Len(s) : s[i] = Star

\* s.replace('*', wc, 1)
ReplaceFirst(s, wc) ==
    IF HasStar(s)
    THEN LET first == CHOOSE i \in 1..Len(s) :
                         s[i] = Star /\ \A j \in 1..(i - 1) : s[j] # Star
         IN SubSeq(s, 1, first - 1) \o <<wc>> \o SubSeq(s, first + 1, Len(s))
    ELSE s

\* for wc in wildcards: s = s.replace('*', wc, 1)
RECURSIVE ReplaceEach(_, _)
ReplaceEach(s, wcs) ==
    IF wcs = <<>> THEN s
    ELSE ReplaceEach(ReplaceFirst(s, Head(wcs)), Tail(wcs))

\* s.replace('*', name)
ReplaceAll(s, name) == [i \in 1..Len(s) |-> IF s[i] = Star THEN name ELSE s[i]]

\* [name] * n
Repeat(name, n) == [i \in 1..n |-> name]

\* the object name a pattern matches with the given capture groups
RECURSIVE Fill(_, _)
Fill(pattern, caps) ==
    IF pattern = <<>> THEN <<>>
    ELSE IF Head(pattern) = Star /\ caps # <<>>
         THEN <<Head(caps)>> \o Fill(Tail(pattern), Tail(caps))
         ELSE <<Head(pattern)>> \o Fill(Tail(pattern), caps)

\* access bits of a channel (zerocloud.common)
ACCESS_READABLE == 1
ACCESS_WRITABLE == 2
ACCESS_RANDOM == 4
ACCESS_NETWORK == 8
ACCESS_CDR == 16
UnknownAccess == 0 - 1

\* a & b and a | b for access values; -1 has every bit set
RECURSIVE BitAnd(_, _)
BitAnd(a, b) ==
    IF a = UnknownAccess THEN b
    ELSE IF a = 0 \/ b = 0 THEN 0
    ELSE (a % 2) * (b % 2) + 2 * BitAnd(a \div 2, b \div 2)

RECURSIVE BitOr(_, _)
BitOr(a, b) ==
    IF a = 0 THEN b
    ELSE IF b = 0 THEN a
    ELSE (IF a % 2 = 1 \/ b % 2 = 1 THEN 1 ELSE 0) + 2 * BitOr(a \div 2, b \div 2)

\* DEVICE_MAP.get(device, -1)
DeviceAccess(device) ==
    CASE device = "stdin" -> ACCESS_READABLE
      [] device = "stdout" -> ACCESS_WRITABLE
      [] device = "stderr" -> ACCESS_WRITABLE
      [] device = "input" -> BitOr(ACCESS_RANDOM, ACCESS_READABLE)
      [] device = "output" -> BitOr(ACCESS_RANDOM, ACCESS_WRITABLE)
      [] device = "debug" -> ACCESS_NETWORK
      [] device = "image" -> ACCESS_CDR
      [] OTHER -> UnknownAccess

\* the system-image devices the parser was configured with
sysimage_devices == {"python"}

is_sysimage_device(device) == device \in sysimage_devices

\* Locations as parse_location returns them: None, a swift object (url: its
\* name within account and container), or a zvm device of another node.
NoPath == [kind |-> "none", url |-> <<>>, host |-> ""]

SwiftPath(url) == [kind |-> "swift", url |-> url, host |-> ""]

ZvmPath(host, device) == [kind |-> "zvm", url |-> device, host |-> host]

is_swift_path(path) == path.kind = "swift"

is_zvm_path(path) == path.kind = "zvm"

\* ZvmChannel(device, access, path)
ZvmChannel(device, access, path) == [device |-> device, access |-> access, path |-> path]

\* ZvmNode(0, name, exe, args, env, replicate) of _create_node
create_node(node) ==
    [name |-> node.name, exe |-> SwiftPath(<<"exe">>), replicate |-> node.replicate]

\* ZvmNode.copy(id, name): a worker without channels or connections
ZvmNodeCopy(zvm_node, id, name) ==
    [id |-> id, name |-> name, exe |-> zvm_node.exe,
     replicate |-> zvm_node.replicate,
     channels |-> <<>>, wildcards |-> <<>>, bind |-> <<>>, connect |-> <<>>,
     path_info |-> <<>>]

\* ZvmNode.add_channel(channel, path): the channel, with `path` when given
add_channel(worker, chan, path) ==
    [worker EXCEPT !.channels =
        Append(@, IF path = NoPath THEN chan ELSE [chan EXCEPT !.path = path])]

\* '%s-%d' % (node_name, i)
create_node_name(node_name, i) == node_name \o "-" \o ToString(i)

\* ---------------------------------------------------- parse: first loop
\* The parser state threaded through one job node: nodes, node_id, the
\* node_count and read_group locals, and err, the message of the
\* ClusterConfigParsingError raised ("" while none was).
NoErr == ""

InternalError == "Config parser internal error"

Raise(s, msg) == [s EXCEPT !.err = msg]

NewName(zvm_node, index) ==
    IF index = 0 THEN zvm_node.name ELSE create_node_name(zvm_node.name, index)

\* _get_new_node (lines 116-126) as it would be without line 125
get_new_node_keeps_id(s, zvm_node, index) ==
    LET new_name == NewName(zvm_node, index)
    IN IF new_name \in DOMAIN s.nodes THEN s
       ELSE [s EXCEPT !.nodes = Put(s.nodes, new_name,
                                    ZvmNodeCopy(zvm_node, s.node_id, new_name))]

\* _get_new_node (lines 116-126)
get_new_node(s, zvm_node, index) ==
    LET new_name == NewName(zvm_node, index)
    IN IF new_name \in DOMAIN s.nodes THEN s
       ELSE [s EXCEPT !.nodes = Put(s.nodes, new_name,
                                    ZvmNodeCopy(zvm_node, s.node_id, new_name)),
                      !.node_id = s.node_id + 1]

\* _add_new_channel (lines 295-299)
add_new_channel(s, zvm_node, chan, index, path) ==
    LET s1 == get_new_node(s, zvm_node, index)
    IN [s1 EXCEPT !.nodes[NewName(zvm_node, index)] = add_channel(@, chan, path)]

\* for i in range(1, node_count + 1): self._add_new_channel(zvm_node, chan, index=i)
RECURSIVE FanOut(_, _, _, _)
FanOut(s, zvm_node, chan, i) ==
    IF i > s.node_count THEN s
    ELSE FanOut(add_new_channel(s, zvm_node, chan, i, NoPath), zvm_node, chan, i + 1)

\* lines 220-224, 252-256, 263-267
AddByCount(s, zvm_node, chan) ==
    IF s.node_count > 1 THEN FanOut(s, zvm_node, chan, 1)
    ELSE add_new_channel(s, zvm_node, chan, 0, NoPath)

\* ZvmNode.store_wildcards(new_path, read_mask): the groups the mask captures
store_wildcards(worker, caps) == [worker EXCEPT !.wildcards = caps]

\* lines 215-218: one worker per matched object; object_list[i] is given by
\* the capture groups it matches the pattern with
RECURSIVE ExpandRead(_, _, _, _, _)
ExpandRead(s, zvm_node, chan, object_list, i) ==
    IF i > Len(object_list) THEN s
    ELSE LET new_path == SwiftPath(Fill(chan.path.url, object_list[i]))
             s1 == add_new_channel(s, zvm_node, chan, i, new_path)
             nm == NewName(zvm_node, i)
         IN ExpandRead([s1 EXCEPT !.nodes[nm] = store_wildcards(@, object_list[i])],
                       zvm_node, chan, object_list, i + 1)

\* lines 208-224 for one channel of read_list; find_objects(chan.path) is
\* listing[chan.path.url]
ReadChannel(s, zvm_node, chan, listing) ==
    IF chan.path = NoPath THEN Raise(s, InternalError)
    ELSE IF HasStar(chan.path.url)
    THEN LET object_list == listing[chan.path.url]
         IN IF object_list = <<>> THEN Raise(s, "No objects found in path")
            ELSE ExpandRead([s EXCEPT !.read_group = TRUE,
                                      !.node_count = Len(object_list)],
                            zvm_node, chan, object_list, 1)
    ELSE AddByCount(s, zvm_node, chan)

\* the captures of a list, last first
Reverse(seq) == [i \in 1..Len(seq) |-> seq[Len(seq) + 1 - i]]

\* _extract_stored_wildcards filling the wildcards from the last capture on
extract_stored_wildcards_reversed(path, worker) ==
    LET new_url == ReplaceEach(path.url, Reverse(worker.wildcards))
    IN [ok |-> ~HasStar(new_url), url |-> new_url]

\* _extract_stored_wildcards (lines 585-593)
extract_stored_wildcards(path, worker) ==
    LET new_url == ReplaceEach(path.url, worker.wildcards)
    IN [ok |-> ~HasStar(new_url), url |-> new_url]

\* lines 229-233
RECURSIVE WriteFromReads(_, _, _, _)
WriteFromReads(s, zvm_node, chan, i) ==
    IF i > s.node_count THEN s
    ELSE LET nm == create_node_name(zvm_node.name, i)
         IN IF nm \notin DOMAIN s.nodes THEN Raise(s, InternalError)
            ELSE LET r == extract_stored_wildcards(chan.path, s.nodes[nm])
                 IN IF ~r.ok
                    THEN Raise(s, "Wildcards in input cannot be resolved into output path")
                    ELSE WriteFromReads(
                           [s EXCEPT !.nodes[nm] = add_channel(@, chan, SwiftPath(r.url))],
                           zvm_node, chan, i + 1)

\* lines 235-240
RECURSIVE WriteByName(_, _, _, _)
WriteByName(s, zvm_node, chan, i) ==
    IF i > s.node_count THEN s
    ELSE LET new_name == create_node_name(zvm_node.name, i)
             new_url == ReplaceAll(chan.path.url, new_name)
             s1 == add_new_channel(s, zvm_node, chan, i, SwiftPath(new_url))
         IN WriteByName(
              [s1 EXCEPT !.nodes[new_name].wildcards =
                            Repeat(new_name, CountStars(chan.path.url))],
              zvm_node, chan, i + 1)

\* 'stdout' in chan.device or 'stderr' in chan.device
ImmediateDevice(device) == device \in {"stdout", "stderr"}

\* lines 226-256 for one channel of write_list
WriteChannel(s, zvm_node, chan) ==
    IF chan.path # NoPath /\ HasStar(chan.path.url)
    THEN IF s.read_group THEN WriteFromReads(s, zvm_node, chan, 1)
         ELSE WriteByName(s, zvm_node, chan, 1)
    ELSE IF chan.path # NoPath
    THEN IF s.node_count > 1
         THEN Raise(s, "Single path for multiple node definition")
         ELSE add_new_channel(s, zvm_node, chan, 0, NoPath)
    ELSE IF ~ImmediateDevice(chan.device)
         THEN Raise(s, "Immediate response is not available for device")
         ELSE AddByCount(s, zvm_node, chan)

\* lines 257-267 for one channel of other_list
OtherChannel(s, zvm_node, chan) ==
    IF is_sysimage_device(chan.device)
    THEN AddByCount(s, zvm_node,
                    [chan EXCEPT !.access = BitOr(ACCESS_RANDOM, ACCESS_READABLE)])
    ELSE IF chan.path = NoPath THEN Raise(s, "Path is required for device")
    ELSE AddByCount(s, zvm_node, chan)

\* _create_channel (lines 618-636): the channel, or the error it raises
create_channel(f) ==
    LET access == DeviceAccess(f.device)
    IN IF BitAnd(access, ACCESS_READABLE) # 0 /\ f.path # NoPath /\ ~is_swift_path(f.path)
       THEN [err |-> "Readable device must be a swift object",
             chan |-> ZvmChannel(f.device, access, f.path)]
       ELSE [err |-> NoErr, chan |-> ZvmChannel(f.device, access, f.path)]

\* an _add_connected_device that stores the remote device first
add_connected_device_swapped(devices, chan, zvm_node) ==
    LET mine == IF zvm_node.name \in DOMAIN devices THEN devices[zvm_node.name]
                ELSE EmptyMap
    IN Put(devices, zvm_node.name,
           Put(mine, chan.path.host,
               [src |-> chan.path.url, dst |-> <<"/dev/", chan.device>>]))

\* _add_connected_device (lines 565-569)
add_connected_device(devices, chan, zvm_node) ==
    LET mine == IF zvm_node.name \in DOMAIN devices THEN devices[zvm_node.name]
                ELSE EmptyMap
    IN Put(devices, zvm_node.name,
           Put(mine, chan.path.host,
               [src |-> <<"/dev/", chan.device>>, dst |-> chan.path.url]))

\* lines 185-205: the partition of file_list; c holds read_list, write_list,
\* other_list, connect_devices and the error raised
RECURSIVE Classify(_, _, _)
Classify(file_list, zvm_node, c) ==
    IF file_list = <<>> \/ c.err # NoErr THEN c
    ELSE LET r == create_channel(Head(file_list))
             channel == r.chan
             rest == Tail(file_list)
         IN IF r.err # NoErr THEN [c EXCEPT !.err = r.err]
            ELSE IF is_zvm_path(channel.path)
            THEN Classify(rest, zvm_node,
                   [c EXCEPT !.devices = add_connected_device(@, channel, zvm_node)])
            ELSE IF channel.access < 0
            THEN IF is_sysimage_device(channel.device)
                 THEN Classify(rest, zvm_node,
                        [c EXCEPT !.other_list = Append(@, channel)])
                 ELSE [c EXCEPT !.err = "Unknown device"]
            ELSE IF BitAnd(channel.access, ACCESS_READABLE) # 0
            THEN Classify(rest, zvm_node, [c EXCEPT !.read_list = <<channel>> \o @])
            ELSE IF BitAnd(channel.access, ACCESS_CDR) # 0
            THEN Classify(rest, zvm_node, [c EXCEPT !.read_list = Append(@, channel)])
            ELSE IF BitAnd(channel.access, ACCESS_WRITABLE) # 0
            THEN Classify(rest, zvm_node, [c EXCEPT !.write_list = Append(@, channel)])
            ELSE Classify(rest, zvm_node, [c EXCEPT !.other_list = Append(@, channel)])

RECURSIVE ReadLoop(_, _, _, _)
ReadLoop(s, zvm_node, read_list, listing) ==
    IF read_list = <<>> \/ s.err # NoErr THEN s
    ELSE ReadLoop(ReadChannel(s, zvm_node, Head(read_list), listing),
                  zvm_node, Tail(read_list), listing)

RECURSIVE WriteLoop(_, _, _)
WriteLoop(s, zvm_node, write_list) ==
    IF write_list = <<>> \/ s.err # NoErr THEN s
    ELSE WriteLoop(WriteChannel(s, zvm_node, Head(write_list)), zvm_node,
                   Tail(write_list))

RECURSIVE OtherLoop(_, _, _)
OtherLoop(s, zvm_node, other_list) ==
    IF other_list = <<>> \/ s.err # NoErr THEN s
    ELSE OtherLoop(OtherChannel(s, zvm_node, Head(other_list)), zvm_node,
                   Tail(other_list))

\* the iteration with the loop over write_list ahead of the one over read_list
ParseJobNodeWritesFirst(node, ns, id, cd, listing) ==
    LET zvm_node == create_node(node)
        c == Classify(node.file_list, zvm_node,
                      [read_list |-> <<>>, write_list |-> <<>>, other_list |-> <<>>,
                       devices |-> cd, err |-> NoErr])
        s0 == [nodes |-> ns, node_id |-> id,
               err |-> IF node.count > 0 THEN c.err ELSE "Invalid node count",
               node_count |-> node.count, read_group |-> FALSE]
        s1 == WriteLoop(s0, zvm_node, c.write_list)
        s2 == ReadLoop(s1, zvm_node, c.read_list, listing)
        s3 == OtherLoop(s2, zvm_node, c.other_list)
    IN [nodes |-> s3.nodes, node_id |-> s3.node_id, devices |-> c.devices,
        err |-> s3.err]

\* lines 173-267: one iteration of the first loop of parse, for job node
\* `node`, from nodes ns, node_id id and connect_devices cd
ParseJobNode(node, ns, id, cd, listing) ==
    LET zvm_node == create_node(node)
        c == Classify(node.file_list, zvm_node,
                      [read_list |-> <<>>, write_list |-> <<>>, other_list |-> <<>>,
                       devices |-> cd, err |-> NoErr])
        s0 == [nodes |-> ns, node_id |-> id,
               err |-> IF node.count > 0 THEN c.err ELSE "Invalid node count",
               node_count |-> node.count, read_group |-> FALSE]
        s1 == ReadLoop(s0, zvm_node, c.read_list, listing)
        s2 == WriteLoop(s1, zvm_node, c.write_list)
        s3 == OtherLoop(s2, zvm_node, c.other_list)
    IN [nodes |-> s3.nodes, node_id |-> s3.node_id, devices |-> c.devices,
        err |-> s3.err]

\* --------------------------------------------------- parse: connections
\* The wiring state w: nodes and err.
\* _resolve_wildcards (lines 576-582)
resolve_wildcards(worker, param) ==
    IF CountStars(param) > 0
    THEN LET p == ReplaceEach(param, worker.wildcards)
         IN [ok |-> ~HasStar(p), value |-> p]
    ELSE [ok |-> TRUE, value |-> param]

\* lines 310-315 and 321-327: the pair of entries for connecting worker
\* `name` and bind worker `bind`; src is the src_device carried so far
Connect(w, name, bind, src, dst) ==
    LET w1 == [w EXCEPT !.nodes[bind].bind = Append(@, <<name, dst>>)]
    IN IF src = <<>>
       THEN [w |-> [w1 EXCEPT !.nodes[name].connect =
                                  Append(@, <<bind, <<"/dev/out/", bind>> >>)],
             src |-> src]
       ELSE LET r == resolve_wildcards(w.nodes[bind], src)
            IN IF ~r.ok
               THEN [w |-> Raise(w1, "Cannot resolve wildcard for node"), src |-> src]
               ELSE [w |-> [w1 EXCEPT !.nodes[name].connect =
                                         Append(@, <<bind, r.value>>)],
                     src |-> r.value]

\* An entry of a connect list that is a JSON number, not a string.
NonString == "<number>"

\* bind_name + '-1' (line 316) for such an entry: the TypeError it raises,
\* after the try block of lines 170-272 has ended
TypeError == "TypeError: unsupported operand type(s) for +: 'int' and 'str'"

\* as the loop of lines 319-329 would be without the test of line 320
RECURSIVE ConnectGroupWithSelf(_, _, _, _, _, _)
ConnectGroupWithSelf(w, name, bind_name, src, dst, i) ==
    LET bind == create_node_name(bind_name, i)
    IN IF bind \notin DOMAIN w.nodes \/ w.err # NoErr THEN w
       ELSE LET r == Connect(w, name, bind, src, dst)
            IN ConnectGroupWithSelf(r.w, name, bind_name, r.src, dst, i + 1)

\* lines 317-329: the members bind_name-1, bind_name-2, ... in turn
RECURSIVE ConnectGroup(_, _, _, _, _, _)
ConnectGroup(w, name, bind_name, src, dst, i) ==
    LET bind == create_node_name(bind_name, i)
    IN IF bind \notin DOMAIN w.nodes \/ w.err # NoErr THEN w
       ELSE IF bind = name
       THEN ConnectGroup(w, name, bind_name, src, dst, i + 1)
       ELSE LET r == Connect(w, name, bind, src, dst)
            IN ConnectGroup(r.w, name, bind_name, r.src, dst, i + 1)

\* _add_connection as it would be without lines 308-309
add_connection_to_self(w, name, bind_name, src_device, dst_device) ==
    LET node == w.nodes[name]
        d == IF dst_device = <<>> THEN [ok |-> TRUE, value |-> <<"/dev/in/", name>>]
             ELSE resolve_wildcards(node, dst_device)
    IN IF ~d.ok THEN Raise(w, "Cannot resolve wildcard for node")
       ELSE IF bind_name \in DOMAIN w.nodes
       THEN Connect(w, name, bind_name, src_device, d.value).w
       ELSE IF bind_name = NonString THEN Raise(w, TypeError)
       ELSE IF create_node_name(bind_name, 1) \in DOMAIN w.nodes
       THEN ConnectGroup(w, name, bind_name, src_device, d.value, 1)
       ELSE Raise(w, "Non-existing node in connect")

\* _add_connection (lines 301-331) for the worker named `name`
add_connection(w, name, bind_name, src_device, dst_device) ==
    LET node == w.nodes[name]
        d == IF dst_device = <<>> THEN [ok |-> TRUE, value |-> <<"/dev/in/", name>>]
             ELSE resolve_wildcards(node, dst_device)
    IN IF ~d.ok THEN Raise(w, "Cannot resolve wildcard for node")
       ELSE IF bind_name \in DOMAIN w.nodes
       THEN IF bind_name = name THEN Raise(w, "Cannot bind to itself")
            ELSE Connect(w, name, bind_name, src_device, d.value).w
       ELSE IF bind_name = NonString THEN Raise(w, TypeError)
       ELSE IF create_node_name(bind_name, 1) \in DOMAIN w.nodes
       THEN ConnectGroup(w, name, bind_name, src_device, d.value, 1)
       ELSE Raise(w, "Non-existing node in connect")

\* lines 131-138 and 143-150: the connections of one connecting worker
RECURSIVE ConnectAll(_, _, _, _)
ConnectAll(w, name, connections, source_devices) ==
    IF connections = <<>> \/ w.err # NoErr THEN w
    ELSE LET bind_name == Head(connections)
             known == bind_name \in DOMAIN source_devices
             src_dev == IF known THEN source_devices[bind_name].src ELSE <<>>
             dst_dev == IF known THEN source_devices[bind_name].dst ELSE <<>>
         IN ConnectAll(add_connection(w, name, bind_name, src_dev, dst_dev),
                       name, Tail(connections), source_devices)

\* lines 140-153: the workers node_name-1, node_name-2, ... in turn
RECURSIVE ConnectMembers(_, _, _, _, _)
ConnectMembers(w, node_name, connections, source_devices, j) ==
    LET name == create_node_name(node_name, j)
    IN IF name \notin DOMAIN w.nodes \/ w.err # NoErr THEN w
       ELSE ConnectMembers(ConnectAll(w, name, connections, source_devices),
                           node_name, connections, source_devices, j + 1)

\* _add_all_connections (lines 128-155)
add_all_connections(w, node_name, connections, source_devices) ==
    IF node_name \in DOMAIN w.nodes
    THEN ConnectAll(w, node_name, connections, source_devices)
    ELSE IF create_node_name(node_name, 1) \in DOMAIN w.nodes
    THEN ConnectMembers(w, node_name, connections, source_devices, 1)
    ELSE Raise(w, "Non existing node in connect string for node")

\* ------------------------------------------------------ parse: last pass
\* The names workers can have, in the order sorted() gives strings
\* ('-' sorts before the digits, the digits before the letters).
MaxIndex == IF MaxCount > MaxMatches THEN MaxCount ELSE MaxMatches

Members(name, from) == [i \in 1..(MaxIndex - from + 1) |-> create_node_name(name, i + from - 1)]

NameOrder ==
    <<"a", "a-1">> \o Members("a-1", 1) \o Members("a", 2) \o <<"b">> \o Members("b", 1)

Rank(name) == CHOOSE i \in 1..Len(NameOrder) : NameOrder[i] = name

\* sorted(self.nodes.keys()) (line 284)
RECURSIVE SortedNames(_)
SortedNames(names) ==
    IF names = {} THEN <<>>
    ELSE LET first == CHOOSE n \in names : \A m \in names : Rank(n) <= Rank(m)
         IN <<first>> \o SortedNames(names \ {first})

\* ZvmNode.add_new_channel('image', ACCESS_CDR, removable='yes') (line 288)
AddUserImage(worker) ==
    [worker EXCEPT !.channels = Append(@, ZvmChannel("image", ACCESS_CDR, NoPath))]

\* resolve_path_info (lines 550-563) for one worker
resolve_path_info(worker, account, replicas) ==
    LET top_channel == worker.channels[1]
        w1 == IF is_swift_path(top_channel.path)
              THEN IF BitAnd(top_channel.access, BitOr(ACCESS_READABLE, ACCESS_CDR)) # 0
                   THEN [worker EXCEPT !.path_info = top_channel.path.url]
                   ELSE IF BitAnd(top_channel.access, ACCESS_WRITABLE) # 0
                           /\ worker.replicate > 0
                   THEN [worker EXCEPT !.path_info = top_channel.path.url,
                                       !.replicate = replicas]
                   ELSE [worker EXCEPT !.path_info = <<"/", account>>]
              ELSE worker
    IN IF w1.replicate = 0 THEN [w1 EXCEPT !.replicate = 1] ELSE w1

\* lines 291-293
RECURSIVE SumReplicate(_, _)
SumReplicate(ns, list) ==
    IF list = <<>> THEN 0
    ELSE ns[Head(list)].replicate + SumReplicate(ns, Tail(list))

\* lines 284-293: the workers after the last pass
Finished(ns, image, account, replicas) ==
    [n \in DOMAIN ns |->
        LET w1 == IF image THEN AddUserImage(ns[n]) ELSE ns[n]
        IN IF account # "" THEN resolve_path_info(w1, account, replicas) ELSE w1]

\* ------------------------------------------- connect strings and replicas
\* an id of a replica that counts on by one
replica_id_by_one(id, i, node_count) == id + (i + 1)

\* node.id + (i + 1) * len(self.parser.node_list) (proxyquery.py line 749)
replica_id(id, i, node_count) == id + (i + 1) * node_count

\* proxyquery.py lines 746-749: the ids of the replicas made of a worker
make_replicas(worker, node_count) ==
    IF worker.replicate > 1
    THEN [k \in 1..(worker.replicate - 1) |-> replica_id(worker.id, k - 1, node_count)]
    ELSE <<>>

\* the first field of a connect string: 'tcp:%d:<port>' for the worker named
\* dst and each of its replicas (lines 346-349 and 362-365)
Proto(ns, dst, node_count, port) ==
    [k \in 1..ns[dst].replicate |-> <<"tcp", ns[dst].id + (k - 1) * node_count, port>>]

\* build_connect_string (lines 333-375): the bind and connect lists of the
\* worker rendered; the limits that follow the device are left out
build_connect_string(ns, list, worker) ==
    LET node_count == Len(list)
    IN [worker EXCEPT
          !.bind = [k \in 1..Len(worker.bind) |->
                      [proto |-> Proto(ns, worker.bind[k][1], node_count, "0"),
                       device |-> worker.bind[k][2]]],
          !.connect = [k \in 1..Len(worker.connect) |->
                         [proto |-> Proto(ns, worker.connect[k][1], node_count, ""),
                          device |-> worker.connect[k][2]]]]

\* proxyquery.py lines 743-749 for every worker of node_list, in a POST that
\* started a name service (line 705); POST gives parse its account name
PostBuildConnectStrings ==
    /\ parse_pc = "done"
    /\ account_name # ""
    /\ total_count > 1
    /\ nodes' = [n \in DOMAIN nodes |-> build_connect_string(nodes, node_list, nodes[n])]
    /\ node_replicas' = [n \in DOMAIN nodes |-> make_replicas(nodes[n], Len(node_list))]
    /\ parse_pc' = "built"
    /\ UNCHANGED <<cluster_config, add_user_image, account_name, replica_count,
                   node_id, node_list, total_count, connect_devices, node_idx,
                   parse_err>>
    /\ UNCHANGED nsVars
    /\ UNCHANGED manifestVars
    /\ UNCHANGED connectVars
    /\ UNCHANGED postVars
    /\ UNCHANGED daemonVars
    /\ UNCHANGED sharedVars

\* ------------------------------------------------------------ the jobs
\* file_list entries
File(device, path) == [device |-> device, path |-> path]

Files ==
    [ReadOne |-> File("stdin", SwiftPath(<<"in/x">>)),
     ReadStar |-> File("stdin", SwiftPath(<<"in/", Star>>)),
     ReadStar2 |-> File("input", SwiftPath(<<Star, "_", Star>>)),
     ReadNoPath |-> File("stdin", NoPath),
     ReadOther |-> File("input", SwiftPath(<<"in/z">>)),
     Image |-> File("image", SwiftPath(<<"img">>)),
     WriteImmediate |-> File("stdout", NoPath),
     WriteOne |-> File("output", SwiftPath(<<"out/y">>)),
     WriteStar |-> File("output", SwiftPath(<<"out/", Star>>)),
     WriteStar2 |-> File("stderr", SwiftPath(<<Star, ".", Star>>)),
     SysImage |-> File("python", NoPath),
     Debug |-> File("debug", SwiftPath(<<"dbg">>)),
     Unknown |-> File("X", NoPath),
     ZvmUnknown |-> File("X", ZvmPath("b", <<"/dev/", "Y">>)),
     ZvmOut |-> File("stdout", ZvmPath("b", <<"/dev/", "stdin">>)),
     ZvmOutStar |-> File("stderr", ZvmPath("b", <<"/dev/in/", Star>>))]

ReadParts == {<<>>, <<Files.ReadOne>>, <<Files.ReadStar>>, <<Files.ReadStar2>>, <<Files.ReadOne, Files.ReadStar>>,
              <<Files.ReadStar, Files.ReadStar2>>, <<Files.ReadStar2, Files.ReadStar>>, <<Files.Image>>,
              <<Files.ReadStar, Files.Image>>, <<Files.ReadNoPath>>,
              <<Files.ReadStar, Files.ReadOther>>}

WriteParts == {<<>>, <<Files.WriteImmediate>>, <<Files.WriteOne>>, <<Files.WriteStar>>, <<Files.WriteStar2>>,
               <<Files.WriteStar, Files.WriteImmediate>>}

OtherParts == {<<>>, <<Files.SysImage>>, <<Files.Debug>>, <<Files.Unknown>>, <<Files.ZvmUnknown>>}

Node(name, count, replicate, file_list, connect) ==
    [name |-> name, count |-> count, replicate |-> replicate,
     file_list |-> file_list, connect |-> connect]

Counts == 1..MaxCount

\* jobs of one node, with every mix of channels
SingleJobs ==
    {<<Node("a", c, 1, r \o w \o o, cn)>> :
        c \in 0..MaxCount, r \in ReadParts, w \in WriteParts, o \in OtherParts,
        cn \in {<<>>, <<"a">>}}

\* jobs of two nodes, connected by connect lists and zvm channels
FirstFiles == {<<Files.WriteImmediate>>, <<Files.ReadStar>>, <<Files.ReadStar, Files.WriteStar>>,
               <<Files.WriteImmediate, Files.ZvmOut>>, <<Files.ReadStar, Files.ZvmOutStar>>, <<Files.WriteStar>>}

SecondFiles == {<<Files.WriteImmediate>>, <<Files.ReadStar>>, <<Files.WriteOne>>, <<Files.ReadOne>>}

PairJobs ==
    {<<Node("a", c1, rp, f1, cn1), Node(n2, c2, 1, f2, cn2)>> :
        c1 \in Counts, rp \in 0..2, f1 \in FirstFiles,
        cn1 \in {<<>>, <<"b">>, <<"a">>, <<"c">>},
        n2 \in {"b", "a-1"}, c2 \in Counts, f2 \in SecondFiles,
        cn2 \in {<<>>, <<"a">>, <<"b">>}}

\* jobs whose connect list holds an entry that is no name
MalformedJobs ==
    {<<Node("a", c, 1, f, <<NonString>>)>> :
        c \in Counts, f \in {<<Files.WriteImmediate>>, <<Files.ReadStar>>}}
       \cup {<<Node("a", 1, 1, <<Files.WriteImmediate>>, <<"b", NonString>>),
               Node("b", 1, 1, <<Files.WriteImmediate>>, <<>>)>>}

Jobs == SingleJobs \cup PairJobs \cup MalformedJobs

\* What the object store lists for a wildcard read path: the capture groups
\* of each matched object, in listing order; at most MaxMatches objects.
Pattern1 == <<"in/", Star>>
Pattern2 == <<Star, "_", Star>>
Matches1 == << <<"*">>, <<"x">>, <<"y">> >>
Matches2 == << <<"*", "x">>, <<"x", "y">>, <<"y", "x">> >>

ObjectLists(universe) ==
    {[i \in 1..Cardinality(S) |-> universe[SortedSeq(S)[i]]] :
        S \in {T \in SUBSET (1..Len(universe)) : Cardinality(T) <= MaxMatches}}

Uses(node, pattern) ==
    \E i \in 1..Len(node.file_list) : node.file_list[i].path = SwiftPath(pattern)

\* the listings that matter to a job node
Listings(node) ==
    {[p \in {Pattern1, Pattern2} |-> IF p = Pattern1 THEN l1 ELSE l2] :
        l1 \in IF Uses(node, Pattern1) THEN ObjectLists(Matches1) ELSE {<<>>},
        l2 \in IF Uses(node, Pattern2) THEN ObjectLists(Matches2) ELSE {<<>>}}

\* ------------------------------------------------------- parse: actions
\* ClusterConfigParser.__init__ (lines 53-61) and the call of parse
ParserInitFields(job) ==
    /\ cluster_config = job
    /\ add_user_image = FALSE
    /\ account_name = ""
    /\ replica_count = 1
    /\ nodes = EmptyMap
    /\ node_id = 1
    /\ node_list = <<>>
    /\ total_count = 0
    /\ connect_devices = EmptyMap
    /\ parse_pc = "nodes"
    /\ node_idx = 1
    /\ parse_err = NoErr
    /\ node_replicas = EmptyMap

Advance(next_pc) ==
    IF node_idx < Len(cluster_config)
    THEN node_idx' = node_idx + 1 /\ parse_pc' = parse_pc
    ELSE node_idx' = 1 /\ parse_pc' = next_pc

\* one iteration of the first loop of parse (lines 172-272)
ParseNode ==
    /\ parse_pc = "nodes"
    /\ \E listing \in Listings(cluster_config[node_idx]) :
          LET r == ParseJobNode(cluster_config[node_idx], nodes, node_id,
                                connect_devices, listing)
          IN /\ nodes' = r.nodes
             /\ node_id' = r.node_id
             /\ connect_devices' = r.devices
             /\ parse_err' = r.err
             /\ IF r.err # NoErr
                THEN parse_pc' = "failed" /\ node_idx' = node_idx
                ELSE Advance("connect")
    /\ UNCHANGED <<cluster_config, add_user_image, account_name, replica_count,
                   node_list, total_count, node_replicas>>
    /\ UNCHANGED nsVars
    /\ UNCHANGED manifestVars
    /\ UNCHANGED connectVars
    /\ UNCHANGED postVars
    /\ UNCHANGED daemonVars
    /\ UNCHANGED sharedVars

\* src_devices.iterkeys() (line 280)
Keys(devices) == SortedNames(DOMAIN devices)

\* one iteration of the second loop of parse (lines 274-283)
WireNode ==
    /\ parse_pc = "connect"
    /\ LET node == cluster_config[node_idx]
           src_devices == IF node.name \in DOMAIN connect_devices
                          THEN connect_devices[node.name] ELSE EmptyMap
           connection_list == IF node.connect # <<>> THEN node.connect
                              ELSE Keys(src_devices)
           w == IF connection_list = <<>> THEN [nodes |-> nodes, err |-> NoErr]
                ELSE add_all_connections([nodes |-> nodes, err |-> NoErr], node.name,
                                         connection_list, src_devices)
       IN /\ nodes' = w.nodes
          /\ parse_err' = w.err
          /\ IF w.err # NoErr
             THEN parse_pc' = "failed" /\ node_idx' = node_idx
             ELSE Advance("sort")
    /\ UNCHANGED <<cluster_config, add_user_image, account_name, replica_count,
                   node_id, node_list, total_count, connect_devices, node_replicas>>
    /\ UNCHANGED nsVars
    /\ UNCHANGED manifestVars
    /\ UNCHANGED connectVars
    /\ UNCHANGED postVars
    /\ UNCHANGED daemonVars
    /\ UNCHANGED sharedVars

\* the rest of parse (lines 284-293), for the arguments it was called with
PostPass ==
    /\ parse_pc = "sort"
    /\ \E image \in BOOLEAN, account \in {"", "acc"}, replicas \in {1, 3} :
          /\ add_user_image' = image
          /\ account_name' = account
          /\ replica_count' = replicas
          /\ nodes' = Finished(nodes, image, account, replicas)
          /\ node_list' = SortedNames(DOMAIN nodes)
          /\ total_count' = SumReplicate(nodes', node_list')
    /\ parse_pc' = "done"
    /\ UNCHANGED <<cluster_config, node_id, connect_devices, node_idx, parse_err,
                   node_replicas>>
    /\ UNCHANGED nsVars
    /\ UNCHANGED manifestVars
    /\ UNCHANGED connectVars
    /\ UNCHANGED postVars
    /\ UNCHANGED daemonVars
    /\ UNCHANGED sharedVars

\* =========================================================================
\* Orchestrator (ClusterController.POST)
\* =========================================================================
\* Before POST is called.
PostInitFields ==
    /\ post_pc = "config"
    /\ response = 0
    /\ body = ""
    /\ user_image = FALSE
    /\ data_sources = <<>>
    /\ last_data = EmptyMap
    /\ conns = <<>>
    /\ post_node = 1
    /\ post_src = 1
    /\ fetched = <<>>
    /\ timeout = ""
    /\ demux = [conn |-> 0, archive |-> <<>>, pos |-> 1, content_type |-> EmptyMap,
                puts |-> <<>>]
    /\ final = [errors |-> {}, bodies |-> <<>>, content_length |-> 0]

\* return <a response of this status, with this body>
Return(status, text) ==
    /\ response' = status
    /\ body' = text
    /\ post_pc' = "returned"

\* POST goes on to its next step
Goto(pc) ==
    /\ post_pc' = pc
    /\ response' = response
    /\ body' = body

\* an exception leaves POST: no response is returned
Propagate ==
    /\ post_pc' = "raised"
    /\ response' = response
    /\ body' = body

\* How reading the system map ends (lines 567-685): with an early response,
\* or with the map; a tar archive or a script comes with a user image.
ConfigOutcomes ==
    {[status |-> 400, image |-> FALSE, body |-> "Must specify Content-Length"],
     [status |-> 408, image |-> FALSE, body |-> ""],
     [status |-> 413, image |-> FALSE, body |-> ""],
     [status |-> 422, image |-> FALSE, body |-> "Could not parse system map"],
     [status |-> 499, image |-> FALSE, body |-> "application/json post unfinished"]}
       \cup {[status |-> 0, image |-> im, body |-> ""] : im \in BOOLEAN}

\* lines 567-685
PostReadConfig ==
    /\ post_pc = "config"
    /\ \E o \in ConfigOutcomes :
          IF o.status # 0
          THEN /\ Return(o.status, o.body)
               /\ user_image' = user_image
               /\ timeout' = IF o.status = 408 THEN "upload" ELSE timeout
          ELSE /\ user_image' = o.image
               /\ Goto("parse")
               /\ timeout' = timeout
    /\ UNCHANGED <<data_sources, last_data, conns, post_node, post_src, fetched,
                   demux, final>>
    /\ UNCHANGED nsVars
    /\ UNCHANGED parseVars
    /\ UNCHANGED manifestVars
    /\ UNCHANGED connectVars
    /\ UNCHANGED daemonVars
    /\ UNCHANGED sharedVars

\* The plans POST gets from the parser: the workers, each with its
\* replicate value and its channels.
PlanChannels ==
    LET stdout == ZvmChannel("stdout", ACCESS_WRITABLE, NoPath)
        output == ZvmChannel("output", DeviceAccess("output"), SwiftPath(<<"out/y">>))
        stdin(p) == ZvmChannel("stdin", ACCESS_READABLE, SwiftPath(<<p>>))
        input(p) == ZvmChannel("input", DeviceAccess("input"), SwiftPath(<<p>>))
        image(p) == ZvmChannel("image", ACCESS_CDR, SwiftPath(<<p>>))
    IN {<<stdout>>, <<stdin("in/x"), stdout>>,
        <<stdin("in/z"), input("in/x"), image("in/y"), output>>,
        <<input("in/z"), stdin("in/y"), image("in/x"), stdout>>}

PlanWorker(id, name, replicate, channels) ==
    [ZvmNodeCopy([name |-> name, exe |-> SwiftPath(<<"exe">>),
                  replicate |-> replicate], id, name)
        EXCEPT !.channels = channels]

Plans ==
    {[n \in {"a"} |-> PlanWorker(1, "a", r, c)] : r \in 1..2, c \in PlanChannels}
       \cup {[n \in {"a", "b"} |-> IF n = "a" THEN PlanWorker(1, "a", 1, c1)
                                    ELSE PlanWorker(2, "b", 1, c2)] :
               c1 \in PlanChannels, c2 \in PlanChannels}
       \cup {[n \in {"a-1", "a-2", "b"} |->
                 PlanWorker(CASE n = "a-1" -> 1 [] n = "a-2" -> 2 [] OTHER -> 3, n, 1,
                            <<ZvmChannel("stdout", ACCESS_WRITABLE, NoPath)>>)]}
       \cup {[n \in {"a"} |->
                 PlanWorker(1, "a", 1,
                            <<ZvmChannel("stdout", ACCESS_WRITABLE, NoPath),
                              ZvmChannel("output", DeviceAccess("output"),
                                         SwiftPath(<<"out/y">>))>>)]}

\* lines 687-695: self.parser.parse raises, or leaves its plan; only a
\* ClusterConfigParsingError is caught
PostParse ==
    /\ post_pc = "parse"
    /\ add_user_image' = user_image
    /\ account_name' = "acc"
    /\ \/ /\ \E err \in {InternalError, TypeError} :
                /\ parse_err' = err
                /\ IF err = TypeError THEN Propagate ELSE Return(400, err)
          /\ parse_pc' = "failed"
          /\ UNCHANGED <<nodes, node_list, total_count>>
       \/ /\ \E plan \in Plans :
                /\ nodes' = [n \in DOMAIN plan |->
                               IF user_image THEN AddUserImage(plan[n]) ELSE plan[n]]
                /\ node_list' = SortedNames(DOMAIN plan)
                /\ total_count' = SumReplicate(plan, node_list')
          /\ parse_pc' = "done"
          /\ parse_err' = NoErr
          /\ Goto("address")
    /\ UNCHANGED <<cluster_config, replica_count, node_id, connect_devices, node_idx,
                   node_replicas>>
    /\ UNCHANGED <<user_image, data_sources, last_data, conns, post_node, post_src,
                   fetched, timeout, demux, final>>
    /\ UNCHANGED nsVars
    /\ UNCHANGED manifestVars
    /\ UNCHANGED connectVars
    /\ UNCHANGED daemonVars
    /\ UNCHANGED sharedVars

\* lines 700-703
PostOwnAddress ==
    /\ post_pc = "address"
    /\ \E addr \in BOOLEAN :
          IF ~addr THEN Return(503, "Cannot find own address, check zerovm_ns_hostname")
          ELSE Goto("name_service")
    /\ UNCHANGED <<user_image, data_sources, last_data, conns, post_node, post_src,
                   fetched, timeout, demux, final>>
    /\ UNCHANGED nsVars
    /\ UNCHANGED parseVars
    /\ UNCHANGED manifestVars
    /\ UNCHANGED connectVars
    /\ UNCHANGED daemonVars
    /\ UNCHANGED sharedVars

\* lines 704-712: NameService(total_count) and start, when the job has more
\* than one worker and the thread pool has a free slot
PostNameService ==
    /\ post_pc = "name_service"
    /\ IF total_count > 1
       THEN \E free \in BOOLEAN :
               IF ~free
               THEN /\ Return(503, "Cluster slot not available")
                    /\ UNCHANGED <<peers, ns_thread>>
               ELSE /\ peers' = total_count
                    /\ ns_thread' = "running"
                    /\ Goto("nodes")
       ELSE /\ Goto("nodes")
            /\ UNCHANGED <<peers, ns_thread>>
    /\ UNCHANGED <<bind_map, conn_map, peer_map, reg, sent, ndgrams>>
    /\ UNCHANGED <<user_image, data_sources, last_data, conns, post_node, post_src,
                   fetched, timeout, demux, final>>
    /\ UNCHANGED parseVars
    /\ UNCHANGED manifestVars
    /\ UNCHANGED connectVars
    /\ UNCHANGED daemonVars
    /\ UNCHANGED sharedVars

\* a _get_remote_objects that takes the first channel as well
get_all_remote_objects(worker) ==
    (IF is_swift_path(worker.exe) THEN <<ZvmChannel("boot", 0, worker.exe)>> ELSE <<>>)
       \o SelectSeq(worker.channels,
                    LAMBDA ch : /\ is_swift_path(ch.path)
                                /\ BitAnd(ch.access, BitOr(ACCESS_READABLE, ACCESS_CDR)) # 0
                                /\ ~is_sysimage_device(ch.device))

\* _get_remote_objects (lines 507-517)
get_remote_objects(worker) ==
    (IF is_swift_path(worker.exe) THEN <<ZvmChannel("boot", 0, worker.exe)>> ELSE <<>>)
       \o SelectSeq(Tail(worker.channels),
                    LAMBDA ch : /\ is_swift_path(ch.path)
                                /\ BitAnd(ch.access, BitOr(ACCESS_READABLE, ACCESS_CDR)) # 0
                                /\ ~is_sysimage_device(ch.device))

\* The tar block, in the bytes of the model: a member is a header of one
\* block and its payload padded to whole blocks.
BLOCKSIZE == 2

\* the content lengths of the data sources
MaxLength == 2

\* TarStream.get_archive_size(size): the payload with its padding
get_archive_size(size) == ((size + BLOCKSIZE - 1) \div BLOCKSIZE) * BLOCKSIZE

\* the chunk a TarStream hands out once it has buffered that much
ChunkSize == 3 * BLOCKSIZE

\* A data source: a response with its content_length and its nodes list, the
\* (node, device) pairs it is fanned out to.  It is a sysmap (path: the node
\* it was made for), a fetched object (path: its request's path_info) or the
\* user image.  A node is a worker or a replica of it: <<name, copy>>.
Source(kind, path, length, fanout) ==
    [kind |-> kind, path |-> path, content_length |-> length, nodes |-> fanout,
     bytes_transferred |-> 0]

\* the identity of a data source
Key(src) == <<src.kind, src.path>>

HasSource(sources, path) ==
    \E i \in 1..Len(sources) : sources[i].kind = "object" /\ sources[i].path = path

\* node.replicas with the node itself in front (lines 746-749): replicas are
\* made only when a name service runs
Copies(worker) ==
    [i \in 1..(IF ns_thread = "running" THEN worker.replicate ELSE 1) |->
        <<worker.name, i - 1>>]

\* an add_data_source that puts the sysmap behind the sources there are
RECURSIVE add_data_source_appending(_, _, _, _)
add_data_source_appending(sources, copies, i, length) ==
    IF i > Len(copies) THEN sources
    ELSE add_data_source_appending(
            Append(sources, Source("sysmap", copies[i], length,
                                   <<[node |-> copies[i], dev |-> "sysmap"]>>)),
            copies, i + 1, length)

\* ZvmNode.add_data_source(data_sources, resp, 'sysmap') for a node and its
\* replicas in turn (lines 751-756): the sysmap goes in front of the sources,
\* as the first member of its node's archive
RECURSIVE add_data_source(_, _, _, _)
add_data_source(sources, copies, i, length) ==
    IF i > Len(copies) THEN sources
    ELSE add_data_source(
            <<Source("sysmap", copies[i], length,
                     <<[node |-> copies[i], dev |-> "sysmap"]>>)>> \o sources,
            copies, i + 1, length)

\* lines 759-764 with _create_request_for_remote_object (lines 519-560): the
\* channels in turn; a path without a data source is fetched with a GET, and
\* the GET for channel fail_at (0: none) answers with a status of 300 or
\* more; r.last is the source the node's last_data is left at
RECURSIVE FetchObjects(_, _, _, _, _, _)
FetchObjects(r, channels, i, copies, fail_at, lengths) ==
    IF i > Len(channels) THEN r
    ELSE LET load_from == channels[i].path.url
             found == HasSource(r.sources, load_from)
             fanout == [j \in 1..Len(copies) |->
                           [node |-> copies[j], dev |-> channels[i].device]]
             sources == IF found THEN r.sources
                        ELSE Append(r.sources,
                                    Source("object", load_from, lengths[i], <<>>))
         IN IF ~found /\ i = fail_at
            THEN [r EXCEPT !.gets = Append(@, load_from), !.failed = TRUE]
            ELSE FetchObjects(
                    [sources |-> [k \in 1..Len(sources) |->
                                     IF sources[k].kind = "object"
                                        /\ sources[k].path = load_from
                                     THEN [sources[k] EXCEPT !.nodes = @ \o fanout]
                                     ELSE sources[k]],
                     gets |-> IF found THEN r.gets ELSE Append(r.gets, load_from),
                     failed |-> FALSE,
                     last |-> <<"object", load_from>>],
                    channels, i + 1, copies, fail_at, lengths)

\* every node of the job, in the order of node_list, replicas after their worker
RECURSIVE AllCopies(_)
AllCopies(list) ==
    IF list = <<>> THEN <<>>
    ELSE Copies(nodes[Head(list)]) \o AllCopies(Tail(list))

\* one iteration of the loop over node_list (lines 714-778), and after the
\* last one lines 780-781
PostPrepareNode ==
    /\ post_pc = "nodes"
    /\ LET node == nodes[node_list[post_node]]
           copies == Copies(node)
           channels == get_remote_objects(node)
           \* the sysmaps of a job are of one length, so are its executables;
           \* the other objects have the length the store has for them
           sysmap_lengths == IF data_sources = <<>> THEN 1..MaxLength
                             ELSE {data_sources[1].content_length}
           image_length == MaxLength
       IN \E denied \in BOOLEAN, fail_at \in 0..Len(channels),
             sysmap_length \in sysmap_lengths, exe_length \in 0..MaxLength :
             LET lengths == [i \in 1..Len(channels) |->
                                IF channels[i].device = "boot" THEN exe_length
                                ELSE IF channels[i].path.url = <<"in/x">> THEN 1
                                ELSE BLOCKSIZE]
             IN
             IF denied
             THEN /\ Return(403, "")
                  /\ UNCHANGED <<data_sources, last_data, fetched, post_node>>
             ELSE LET r == FetchObjects(
                             [sources |-> add_data_source(data_sources, copies, 1,
                                                           sysmap_length),
                              gets |-> fetched, failed |-> FALSE, last |-> <<>>],
                             channels, 1, copies, fail_at, lengths)
                      image == Source("image", <<>>, image_length,
                                      [j \in 1..Len(AllCopies(node_list)) |->
                                          [node |-> AllCopies(node_list)[j],
                                           dev |-> "image"]])
                  IN /\ fetched' = r.gets
                     /\ IF r.failed
                        THEN /\ Return(404, "Error while fetching")
                             /\ data_sources' = r.sources
                             /\ UNCHANGED <<last_data, post_node>>
                        ELSE /\ last_data' =
                                   [c \in DOMAIN last_data \cup {copies[j] : j \in 1..Len(copies)} |->
                                       IF c \in DOMAIN last_data THEN last_data[c]
                                       ELSE IF user_image THEN Key(image)
                                       ELSE IF r.last = <<>> THEN <<"sysmap", c>>
                                       ELSE r.last]
                             /\ IF post_node < Len(node_list)
                                THEN /\ post_node' = post_node + 1
                                     /\ Goto(post_pc)
                                     /\ data_sources' = r.sources
                                ELSE /\ post_node' = post_node
                                     /\ Goto("connect")
                                     /\ data_sources' =
                                           IF user_image THEN Append(r.sources, image)
                                           ELSE r.sources
    /\ UNCHANGED <<user_image, conns, post_src, timeout, demux, final>>
    /\ UNCHANGED nsVars
    /\ UNCHANGED parseVars
    /\ UNCHANGED manifestVars
    /\ UNCHANGED connectVars
    /\ UNCHANGED daemonVars
    /\ UNCHANGED sharedVars

\* lines 782-789: node.size, the bytes of the members of one node
RECURSIVE Size(_, _)
Size(sources, cnode) ==
    IF sources = <<>> THEN 0
    ELSE LET src == Head(sources)
             members == Cardinality({j \in 1..Len(src.nodes) : src.nodes[j].node = cnode})
         IN members * (BLOCKSIZE + get_archive_size(src.content_length))
               + Size(Tail(sources), cnode)

\* A connection as _connect_exec_node returns it (lines 1000-1014), with the
\* fields POST gives it later: cnode, the Content-Length it was opened with,
\* the status of its handshake (0: 100-continue, and resp is None; 400: a
\* client error, with error and resp set; the backends of the model give no
\* 2xx there), whether
\* its sender runs, failed, the bytes its tar_stream holds back (data), the
\* bytes put on its queue, the members and the final flushes put there,
\* last_data, and what _process_response leaves: error and resp.
Connection(cnode, size, status) ==
    [cnode |-> cnode, size |-> size, status |-> status, sender |-> FALSE,
     failed |-> FALSE, data |-> 0, queue |-> 0, members |-> <<>>, flushes |-> 0,
     last_data |-> <<>>, done |-> FALSE,
     error |-> IF status >= 400 THEN "client error" ELSE "",
     resp |-> IF status = 0 THEN "none" ELSE "handshake"]

\* _make_exec_requests (lines 452-498): one _connect_exec_node per node; the
\* nodes of `missing` find no backend, those of `bad` one that answers the
\* handshake with a client error
make_exec_requests(copies, missing, bad) ==
    LET all == [j \in 1..Len(copies) |->
                   Connection(copies[j], Size(data_sources, copies[j]),
                              IF copies[j] \in bad THEN 400 ELSE 0)]
    IN SelectSeq(all, LAMBDA conn : conn.cnode \notin missing)

\* lines 782-810 of a POST that goes on with the connections it got
PostConnectWithAnyConnection ==
    /\ post_pc = "connect"
    /\ LET copies == AllCopies(node_list)
           set == {copies[j] : j \in 1..Len(copies)}
       IN \E missing \in SUBSET set :
             /\ timeout' = timeout
             /\ conns' = [i \in 1..Len(make_exec_requests(copies, missing, {})) |->
                            [make_exec_requests(copies, missing, {})[i]
                                EXCEPT !.sender = TRUE]]
             /\ Goto("stream")
    /\ UNCHANGED <<user_image, data_sources, last_data, post_node, post_src, fetched,
                   demux, final>>
    /\ UNCHANGED nsVars
    /\ UNCHANGED parseVars
    /\ UNCHANGED manifestVars
    /\ UNCHANGED connectVars
    /\ UNCHANGED daemonVars
    /\ UNCHANGED sharedVars

\* lines 782-796; a ConnectionTimeout or Timeout inside _connect_exec_node is
\* no Exception, so that line 1017 does not catch it: it leaves the pile and
\* POST
PostConnect ==
    /\ post_pc = "connect"
    /\ LET copies == AllCopies(node_list)
           set == {copies[j] : j \in 1..Len(copies)}
       IN \E timed_out \in {"", "conn_timeout", "node_timeout on getexpect"},
             missing \in SUBSET set, bad \in {{}} \cup {{c} : c \in set} :
             IF timed_out # ""
             THEN /\ Propagate
                  /\ timeout' = timed_out
                  /\ conns' = conns
             ELSE /\ timeout' = timeout
                  /\ conns' = make_exec_requests(copies, missing, bad)
                  /\ IF Len(conns') < total_count
                     THEN Return(503, "Cannot find suitable node to execute code on")
                     ELSE Goto("handshake")
    /\ UNCHANGED <<user_image, data_sources, last_data, post_node, post_src, fetched,
                   demux, final>>
    /\ UNCHANGED nsVars
    /\ UNCHANGED parseVars
    /\ UNCHANGED manifestVars
    /\ UNCHANGED connectVars
    /\ UNCHANGED daemonVars
    /\ UNCHANGED sharedVars

\* _attach_connections_to_data_sources (lines 1170-1177) and
\* _spawn_file_senders (lines 500-505)
attach_connections(cs) ==
    [i \in 1..Len(cs) |->
        [cs[i] EXCEPT !.last_data = last_data[cs[i].cnode], !.sender = TRUE]]

\* lines 798-810: a backend that answered the handshake with a client error
\* ends the job; else the connections are attached and their senders spawned
PostHandshake ==
    /\ post_pc = "handshake"
    /\ IF \E i \in 1..Len(conns) : conns[i].status >= 400
       THEN /\ Return(400, "client error")
            /\ conns' = conns
       ELSE /\ Goto("stream")
            /\ conns' = attach_connections(conns)
    /\ UNCHANGED <<user_image, data_sources, last_data, post_node, post_src, fetched,
                   timeout, demux, final>>
    /\ UNCHANGED nsVars
    /\ UNCHANGED parseVars
    /\ UNCHANGED manifestVars
    /\ UNCHANGED connectVars
    /\ UNCHANGED daemonVars
    /\ UNCHANGED sharedVars

\* The sender of a connection (ObjectController._send_file, spawned at line
\* 505) fails on its backend and sets conn.failed; one sender of a job does.
SenderFails ==
    /\ post_pc = "stream"
    /\ \A i \in 1..Len(conns) : ~conns[i].failed
    /\ \E i \in 1..Len(conns) : conns' = [conns EXCEPT ![i].failed = TRUE]
    /\ UNCHANGED <<post_pc, response, body, user_image, data_sources, last_data,
                   post_node, post_src, fetched, timeout, demux, final>>
    /\ UNCHANGED nsVars
    /\ UNCHANGED parseVars
    /\ UNCHANGED manifestVars
    /\ UNCHANGED connectVars
    /\ UNCHANGED daemonVars
    /\ UNCHANGED sharedVars

\* the connection of a node (conn.cnode is node['node'], line 1175)
ConnOf(cs, cnode) == CHOOSE i \in 1..Len(cs) : cs[i].cnode = cnode

\* a serve_chunk that leaves out every chunk for a failed connection
serve_chunk_skipping(w, i, n, skip) ==
    LET conn == w.conns[i]
        total == conn.data + n
        chunks == total \div ChunkSize
    IN IF w.aborted THEN w
       ELSE [w EXCEPT !.conns[i].data = total % ChunkSize,
                      !.conns[i].queue = IF conn.failed THEN @ ELSE @ + chunks * ChunkSize]

\* The writes below work on w: the connections, and whether the driver gave
\* up with HTTPServiceUnavailable.
\* for chunk in conn.tar_stream.serve_chunk(n bytes), with the put of each
\* chunk: the stream hands out whole chunks and holds the rest back; a chunk
\* for a failed connection is left out when `skip` (lines 1190-1192) and
\* ends the driver otherwise (lines 1200-1204, 1212-1216)
serve_chunk(w, i, n, skip) ==
    LET conn == w.conns[i]
        total == conn.data + n
        chunks == total \div ChunkSize
    IN IF w.aborted THEN w
       ELSE IF chunks > 0 /\ conn.failed /\ ~skip THEN [w EXCEPT !.aborted = TRUE]
       ELSE [w EXCEPT !.conns[i].data = total % ChunkSize,
                      !.conns[i].queue = IF conn.failed THEN @ ELSE @ + chunks * ChunkSize]

\* _send_tar_headers (lines 1185-1192), from entry j of data_src.conns on
RECURSIVE send_tar_headers(_, _, _)
send_tar_headers(w, src, j) ==
    IF j > Len(src.nodes) THEN w
    ELSE LET i == ConnOf(w.conns, src.nodes[j].node)
             w1 == serve_chunk(w, i, BLOCKSIZE, TRUE)
         IN send_tar_headers(
               [w1 EXCEPT !.conns[i].members =
                             Append(@, [dev |-> src.nodes[j].dev, src |-> Key(src)])],
               src, j + 1)

\* _send_data_chunk (lines 1199-1204), and lines 1211-1216 for the padding
RECURSIVE send_data_chunk(_, _, _, _)
send_data_chunk(w, src, j, n) ==
    IF j > Len(src.nodes) \/ w.aborted THEN w
    ELSE send_data_chunk(serve_chunk(w, ConnOf(w.conns, src.nodes[j].node), n, FALSE),
                         src, j + 1, n)

\* lines 1217-1224: what a tar_stream still holds is put on the queue of the
\* connections whose last_data this source is
RECURSIVE Flush(_, _, _)
Flush(w, src, j) ==
    IF j > Len(src.nodes) \/ w.aborted THEN w
    ELSE LET i == ConnOf(w.conns, src.nodes[j].node)
             conn == w.conns[i]
         IN IF conn.last_data = Key(src) /\ conn.data > 0
            THEN IF conn.failed THEN [w EXCEPT !.aborted = TRUE]
                 ELSE Flush([w EXCEPT !.conns[i].queue = @ + conn.data,
                                      !.conns[i].flushes = @ + 1], src, j + 1)
            ELSE Flush(w, src, j + 1)

\* _finalize_tar_streams (lines 1207-1226)
finalize_tar_streams(w, src, bytes_transferred) ==
    LET remainder == bytes_transferred % BLOCKSIZE
    IN Flush(IF remainder > 0 THEN send_data_chunk(w, src, 1, BLOCKSIZE - remainder)
             ELSE w, src, 1)

\* How the app_iter of a data source ends (lines 814-827): with all its
\* bytes, with a ChunkReadTimeout, a byte short, or past MAX_FILE_SIZE.
StreamOutcomes == {"all", "ChunkReadTimeout", "short", "too large"}

\* a source that is never taken for dead
source_never_dead(src, delivered) == FALSE

\* line 828: the iterator ended before content_length bytes were read
source_dead(src, delivered) == delivered < src.content_length

\* one iteration of the loop over data_sources (lines 811-827), and after the
\* last one lines 828-831
PostStream ==
    /\ post_pc = "stream"
    /\ \E how \in StreamOutcomes :
          LET src == data_sources[post_src]
              w0 == send_tar_headers([conns |-> conns, aborted |-> FALSE], src, 1)
              delivered == IF how = "short" THEN src.content_length - 1
                           ELSE src.content_length
              w1 == IF delivered > 0 THEN send_data_chunk(w0, src, 1, delivered) ELSE w0
              w2 == finalize_tar_streams(w1, src, delivered)
          IN /\ how \in {"short", "too large"} => src.content_length > 0
             /\ data_sources' = [data_sources EXCEPT ![post_src].bytes_transferred =
                                    IF how = "ChunkReadTimeout" THEN 0 ELSE delivered]
             /\ timeout' = IF how = "ChunkReadTimeout" THEN "client_timeout" ELSE timeout
             /\ conns' = IF how \in {"ChunkReadTimeout", "too large"} THEN w0.conns
                         ELSE w2.conns
             /\ IF how = "ChunkReadTimeout" THEN Return(408, "") /\ post_src' = post_src
                ELSE IF how = "too large" THEN Return(413, "") /\ post_src' = post_src
                ELSE IF w2.aborted THEN Return(503, "") /\ post_src' = post_src
                ELSE IF source_dead(src, delivered)
                THEN Return(499, "data source dead") /\ post_src' = post_src
                ELSE IF post_src < Len(data_sources)
                THEN post_src' = post_src + 1 /\ Goto(post_pc)
                ELSE post_src' = post_src /\ Goto("collect")
    /\ UNCHANGED <<user_image, last_data, post_node, fetched, demux, final>>
    /\ UNCHANGED nsVars
    /\ UNCHANGED parseVars
    /\ UNCHANGED manifestVars
    /\ UNCHANGED connectVars
    /\ UNCHANGED daemonVars
    /\ UNCHANGED sharedVars

\* The members a backend's archive can hold, and the archives: any members
\* in any order.
MemberNames == {"sysmap", "stdout", "output"}

Archives ==
    UNION {{a \in [1..n -> MemberNames] : \A i, j \in 1..n : a[i] = a[j] => i = j} :
              n \in 0..Cardinality(MemberNames)}

\* a pile that stops at the first connection with an error
NextConnStopsAtError ==
    IF \E i \in 1..Len(conns) : conns[i].done /\ conns[i].error # "" THEN 0
    ELSE IF \A i \in 1..Len(conns) : conns[i].done THEN 0
    ELSE CHOOSE i \in 1..Len(conns) :
            ~conns[i].done /\ \A j \in 1..(i - 1) : conns[j].done

\* the connection the pile hands to _process_response next (0: none is left)
NextConn ==
    IF \A i \in 1..Len(conns) : conns[i].done THEN 0
    ELSE CHOOSE i \in 1..Len(conns) :
            ~conns[i].done /\ \A j \in 1..(i - 1) : conns[j].done

\* a timeout that leaves no error on the connection
NoTimeoutError == ""

\* conn.error after the node_timeout of line 892
TimeoutError == "Timeout: trying to get final status of POST"

\* ZvmNode.get_channel(device=name): the index of the channel, 0 for None
get_channel(worker, name) ==
    IF \E k \in 1..Len(worker.channels) : worker.channels[k].device = name
    THEN CHOOSE k \in 1..Len(worker.channels) :
            /\ worker.channels[k].device = name
            /\ \A j \in 1..(k - 1) : worker.channels[j].device # name
    ELSE 0

\* a sysmap member that updates nothing
load_no_channel_data(content_type) == content_type

\* _load_channel_data (lines 1140-1148): the content types of the channels
\* after the update by the sysmap member
load_channel_data(content_type) == [c \in DOMAIN content_type |-> "updated"]

\* _process_response up to its loop (lines 889-921) for the next connection:
\* the final response does not come in time, is not a 200, has no body, or
\* has an archive as its body
PostProcessResponse ==
    /\ post_pc = "collect"
    /\ demux.conn = 0
    /\ NextConn # 0
    /\ \E how \in {"Timeout", "error", "empty", "archive"}, archive \in Archives :
          LET i == NextConn
              worker == nodes[conns[i].cnode[1]]
          IN /\ how # "archive" => archive = <<>>
             /\ conns' = [conns EXCEPT
                   ![i].done = how # "archive",
                   ![i].error = CASE how = "Timeout" -> TimeoutError
                                  [] how = "error" -> "500 Internal Server Error"
                                  [] OTHER -> "",
                   ![i].resp = CASE how = "empty" -> "empty"
                                 [] how = "archive" -> "archive"
                                 [] OTHER -> @]
             /\ demux' = [conn |-> IF how = "archive" THEN i ELSE 0,
                          archive |-> archive, pos |-> 1,
                          content_type |-> [k \in 1..Len(worker.channels) |-> "default"],
                          puts |-> <<>>]
             /\ timeout' = IF how = "Timeout" THEN "node_timeout on getresponse"
                          ELSE timeout
    /\ UNCHANGED <<post_pc, response, body, user_image, data_sources, last_data,
                   post_node, post_src, fetched, final>>
    /\ UNCHANGED nsVars
    /\ UNCHANGED parseVars
    /\ UNCHANGED manifestVars
    /\ UNCHANGED connectVars
    /\ UNCHANGED daemonVars
    /\ UNCHANGED sharedVars

\* a loop that takes no member for the body
never_immediate(chan) == FALSE

\* a loop that takes every PUT for done
put_never_failed(status) == FALSE

\* line 975: the PUT of the member was not answered with a success
put_failed(status) == status >= 300

\* line 941: the channel of the member has no path
immediate(chan) == chan.path = NoPath

\* One member of the archive in the loop of _process_response (lines
\* 922-982), or its end: the sysmap member updates the channels
\* (_load_channel_data, lines 1140-1148), a member of a channel without path
\* becomes the body, any other is PUT with the content type of its channel.
PostDemuxMember ==
    /\ post_pc = "collect"
    /\ demux.conn # 0
    /\ LET i == demux.conn
           worker == nodes[conns[i].cnode[1]]
           name == demux.archive[demux.pos]
           k == get_channel(worker, name)
           Finish(error, resp) ==
              /\ conns' = [conns EXCEPT ![i].done = TRUE, ![i].error = error,
                                        ![i].resp = resp]
           Honor(how, status) == Append(demux.puts,
                                        [device |-> name, how |-> how, status |-> status,
                                         content_type |-> demux.content_type[k]])
       IN IF demux.pos > Len(demux.archive)
          THEN /\ Finish("", "empty")
               /\ demux' = [demux EXCEPT !.conn = 0]
          ELSE IF name = "sysmap"
          THEN /\ conns' = conns
               /\ demux' = [demux EXCEPT
                     !.pos = @ + 1,
                     !.content_type = load_channel_data(@)]
          ELSE IF k = 0
          THEN /\ Finish("Channel name not found", conns[i].resp)
               /\ demux' = [demux EXCEPT !.conn = 0]
          ELSE IF immediate(worker.channels[k])
          THEN /\ Finish("", "body")
               /\ demux' = [demux EXCEPT !.conn = 0, !.puts = Honor("body", 200)]
          ELSE \E status \in {201, 500} :
                  IF put_failed(status)
                  THEN /\ Finish("Status when putting", conns[i].resp)
                       /\ demux' = [demux EXCEPT !.conn = 0, !.puts = Honor("PUT", status)]
                  ELSE /\ conns' = conns
                       /\ demux' = [demux EXCEPT !.pos = @ + 1,
                                                 !.puts = Honor("PUT", status)]
    /\ UNCHANGED <<post_pc, response, body, user_image, data_sources, last_data,
                   post_node, post_src, fetched, timeout, final>>
    /\ UNCHANGED nsVars
    /\ UNCHANGED parseVars
    /\ UNCHANGED manifestVars
    /\ UNCHANGED connectVars
    /\ UNCHANGED daemonVars
    /\ UNCHANGED sharedVars

\* resp.content_length of a connection after _process_response: info.size
\* of the member attached as body (line 947; the member of worker k holds k
\* bytes), 0 for an archive read to its end (line 981), else what the
\* backend announced for its archive
content_length(conn) ==
    CASE conn.resp = "body" -> nodes[conn.cnode[1]].id
      [] conn.resp = "archive" -> 2 * BLOCKSIZE
      [] OTHER -> 0

\* final_response.content_length (lines 865-872)
RECURSIVE SumLengths(_)
SumLengths(cs) ==
    IF cs = <<>> THEN 0
    ELSE (IF content_length(Head(cs)) > 0 THEN content_length(Head(cs)) ELSE 0)
            + SumLengths(Tail(cs))

\* lines 846-887: the headers and bodies of the connections are merged into
\* the final response (x-nexe-error of the workers with an error, the body of
\* every response with a content length), and the name service is stopped
PostCollect ==
    /\ post_pc = "collect"
    /\ demux.conn = 0
    /\ NextConn = 0
    /\ final' = [errors |-> {conns[i].cnode[1] : i \in {j \in 1..Len(conns) :
                                                            conns[j].error # ""}},
                 bodies |-> SelectSeq([i \in 1..Len(conns) |-> conns[i].cnode],
                                      LAMBDA c : conns[ConnOf(conns, c)].resp
                                                    \in {"body", "archive"}),
                 content_length |-> SumLengths(conns)]
    /\ ns_thread' = IF ns_thread = "running" THEN "killed" ELSE ns_thread
    /\ Return(200, "")
    /\ UNCHANGED <<peers, bind_map, conn_map, peer_map, reg, sent, ndgrams>>
    /\ UNCHANGED <<user_image, data_sources, last_data, conns, post_node, post_src,
                   fetched, timeout, demux>>
    /\ UNCHANGED parseVars
    /\ UNCHANGED manifestVars
    /\ UNCHANGED connectVars
    /\ UNCHANGED daemonVars
    /\ UNCHANGED sharedVars

\* =========================================================================
\* ClusterConfigParser.prepare_zerovm_files
\* =========================================================================
\* the most entries of a worker's connect list, and of its bind list
MaxEntries == 2

STD_DEVICES == <<"stdin", "stdout", "stderr">>

CHANNEL_TYPE_MAP ==
    [stdin |-> 0, stdout |-> 0, stderr |-> 0, input |-> 3, output |-> 3,
     debug |-> 0, image |-> 1, sysimage |-> 3]

\* the strings x with x in 'image'
SubstringsOfImage ==
    {"", "i", "m", "a", "g", "e", "im", "ma", "ag", "ge", "ima", "mag", "age",
     "imag", "mage", "image"}

\* a Channel= line: what it maps, and the alias /dev/<device> it maps it to
ManifestLine(lpath, device) == [lpath |-> lpath, alias |-> <<"/dev/", device>>]

\* one entry of config['connect'] or config['bind'] as build_connect_string
\* leaves it: the tcp endpoints and the device of this worker
ConnectString(proto, device) == [proto |-> proto, alias |-> <<"/dev/", device>>]

\* conn.split(',', 2)[1][5:]
ConnDevice(conn) == conn.alias[2]

\* add_to_fstab
add_to_fstab(stab, device, removable) ==
    Append(stab, [channel |-> <<"/dev/", device>>, removable |-> removable])

\* the channels of a worker in the order parse leaves them: readable, cdrom,
\* writable, other
ManifestChannelPool ==
    <<[device |-> "stdin", access |-> ACCESS_READABLE, removable |-> "no"],
      [device |-> "image", access |-> ACCESS_CDR, removable |-> "yes"],
      [device |-> "stdout", access |-> ACCESS_WRITABLE, removable |-> "no"],
      [device |-> "output", access |-> BitOr(ACCESS_RANDOM, ACCESS_WRITABLE),
       removable |-> "no"],
      [device |-> "debug", access |-> ACCESS_NETWORK, removable |-> "no"],
      [device |-> "python", access |-> BitOr(ACCESS_RANDOM, ACCESS_READABLE),
       removable |-> "no"]>>

RECURSIVE PickChannels(_, _, _)
PickChannels(pool, picked, i) ==
    IF i > Len(pool) THEN <<>>
    ELSE (IF i \in picked THEN <<pool[i]>> ELSE <<>>) \o PickChannels(pool, picked, i + 1)

\* the lists of at most MaxEntries connect strings over the given devices;
\* the k-th entry leads to the k-th peer
RECURSIVE ConnectLists(_, _)
ConnectLists(devices, n) ==
    IF n = 0 THEN {<<>>}
    ELSE ConnectLists(devices, n - 1)
         \cup {Append(l, ConnectString(n, d)) :
                  l \in {x \in ConnectLists(devices, n - 1) : Len(x) = n - 1},
                  d \in devices}

ManifestConfigs ==
    {[channels |-> PickChannels(ManifestChannelPool, picked, 1), connect |-> c, bind |-> b] :
        picked \in SUBSET (1..Len(ManifestChannelPool)),
        c \in ConnectLists({"stdout", "out/b"}, MaxEntries),
        b \in ConnectLists({"stdin", "in/a"}, MaxEntries)}

NoConfig == [channels |-> <<>>, connect |-> <<>>, bind |-> <<>>]

ManifestInitFields(c, self) ==
    /\ config = c
    /\ use_dev_self = self
    /\ zerovm_inputmnfst = <<>>
    /\ fstab = <<>>
    /\ mnf_channels = <<>>
    /\ network_devices = <<>>
    /\ mnf_step = 0

\* the rounds of the two loops, then the standard devices, then the rest
ChannelRounds == Len(config.channels)

NetworkRounds == Len(config.connect \o config.bind)

ManifestDone == mnf_step = ChannelRounds + NetworkRounds + 2

\* lines 429-468: one round of the loop over config['channels']
ManifestChannel ==
    /\ mnf_step < ChannelRounds
    /\ LET ch == config.channels[mnf_step + 1]
           device == ch.device
           access == ch.access
           known == device \in DOMAIN CHANNEL_TYPE_MAP
           with_ro == IF is_sysimage_device(device)
                      THEN add_to_fstab(fstab, device, "no") ELSE fstab
       IN IF ~known /\ ~is_sysimage_device(device)
          THEN UNCHANGED <<zerovm_inputmnfst, fstab, mnf_channels>>
          ELSE /\ zerovm_inputmnfst' =
                     IF \/ BitAnd(access, ACCESS_READABLE) # 0
                        \/ BitAnd(access, ACCESS_CDR) # 0
                        \/ BitAnd(access, ACCESS_WRITABLE) # 0
                        \/ BitAnd(access, ACCESS_NETWORK) # 0
                     THEN Append(zerovm_inputmnfst, ManifestLine("lpath", device))
                     ELSE zerovm_inputmnfst
               /\ fstab' = IF /\ BitAnd(access, ACCESS_READABLE) = 0
                              /\ BitAnd(access, ACCESS_CDR) # 0
                              /\ device \in SubstringsOfImage
                           THEN add_to_fstab(with_ro, device, ch.removable)
                           ELSE with_ro
               /\ mnf_channels' = Append(mnf_channels, device)
    /\ mnf_step' = mnf_step + 1
    /\ UNCHANGED <<config, use_dev_self, network_devices>>
    /\ UNCHANGED nsVars
    /\ UNCHANGED parseVars
    /\ UNCHANGED postVars
    /\ UNCHANGED connectVars
    /\ UNCHANGED daemonVars
    /\ UNCHANGED sharedVars

\* lines 470-475: one round of the loop over config['connect'] + config['bind']
ManifestNetwork ==
    /\ mnf_step >= ChannelRounds
    /\ mnf_step < ChannelRounds + NetworkRounds
    /\ LET conn == (config.connect \o config.bind)[mnf_step - ChannelRounds + 1]
           dev == ConnDevice(conn)
       IN /\ zerovm_inputmnfst' = Append(zerovm_inputmnfst, [lpath |-> "tcp", alias |-> conn.alias])
          /\ network_devices' = IF \E k \in 1..Len(STD_DEVICES) : STD_DEVICES[k] = dev
                                THEN Append(network_devices, dev)
                                ELSE network_devices
    /\ mnf_step' = mnf_step + 1
    /\ UNCHANGED <<config, use_dev_self, fstab, mnf_channels>>
    /\ UNCHANGED nsVars
    /\ UNCHANGED parseVars
    /\ UNCHANGED postVars
    /\ UNCHANGED connectVars
    /\ UNCHANGED daemonVars
    /\ UNCHANGED sharedVars

InSeq(x, s) == \E k \in 1..Len(s) : s[k] = x

\* lines 476-485: /dev/null for the standard devices nothing was mapped to
RECURSIVE NullLines(_, _, _)
NullLines(devs, declared, network) ==
    IF devs = <<>> THEN <<>>
    ELSE (IF ~InSeq(Head(devs), declared) /\ ~InSeq(Head(devs), network)
          THEN <<ManifestLine("/dev/null", Head(devs))>> ELSE <<>>)
         \o NullLines(Tail(devs), declared, network)

ManifestStdDevices ==
    /\ mnf_step = ChannelRounds + NetworkRounds
    /\ zerovm_inputmnfst' =
           zerovm_inputmnfst \o NullLines(STD_DEVICES, mnf_channels, network_devices)
    /\ mnf_step' = mnf_step + 1
    /\ UNCHANGED <<config, use_dev_self, fstab, mnf_channels, network_devices>>
    /\ UNCHANGED nsVars
    /\ UNCHANGED parseVars
    /\ UNCHANGED postVars
    /\ UNCHANGED connectVars
    /\ UNCHANGED daemonVars
    /\ UNCHANGED sharedVars

\* lines 486-489 and 540-548: /dev/self when asked for, and /dev/nvram
ManifestFinish ==
    /\ mnf_step = ChannelRounds + NetworkRounds + 1
    /\ zerovm_inputmnfst' =
           (IF use_dev_self THEN Append(zerovm_inputmnfst, ManifestLine("zerovm_nexe", "self"))
            ELSE zerovm_inputmnfst)
           \o <<ManifestLine("nvram_file", "nvram")>>
    /\ mnf_step' = mnf_step + 1
    /\ UNCHANGED <<config, use_dev_self, fstab, mnf_channels, network_devices>>
    /\ UNCHANGED nsVars
    /\ UNCHANGED parseVars
    /\ UNCHANGED postVars
    /\ UNCHANGED connectVars
    /\ UNCHANGED daemonVars
    /\ UNCHANGED sharedVars

\* =========================================================================
\* ClusterController._connect_exec_node
\* =========================================================================
\* the most candidate hosts of one request
MaxHosts == 3

\* what a candidate does: it answers the Expect: 100-continue request with a
\* status, or the connect or the wait for the answer raises
Answer(status) == [raises |-> "", status |-> status]

Raises(exception) == [raises |-> exception, status |-> 0]

Answers ==
    {Answer(100), Answer(200), Answer(404), Answer(507), Answer(503),
     Raises("Exception"), Raises("ConnectionTimeout"), Raises("Timeout")}

RECURSIVE HostLists(_)
HostLists(n) ==
    IF n = 0 THEN {<<>>}
    ELSE HostLists(n - 1)
         \cup {Append(l, a) : l \in {x \in HostLists(n - 1) : Len(x) = n - 1}, a \in Answers}

is_success(status) == status >= 200 /\ status <= 299

is_client_error(status) == status >= 400 /\ status <= 499

NoConn == [node |-> 0, resp |-> 0, error |-> ""]

\* a loop round that treats ConnectionTimeout and Timeout as any exception
connect_round_catching_timeouts(answer) ==
    CASE answer.raises # "" -> "next"
      [] answer.status = 100 \/ is_success(answer.status) -> "return"
      [] answer.status = 507 -> "next"
      [] is_client_error(answer.status) -> "return"
      [] OTHER -> "next"

\* lines 987-1019, how one round of the loop ends: `except Exception` does
\* not catch ConnectionTimeout and Timeout, which derive from BaseException
connect_round(answer) ==
    CASE answer.raises = "Exception" -> "next"
      [] answer.raises # "" -> "raise"
      [] answer.status = 100 \/ is_success(answer.status) -> "return"
      [] answer.status = 507 -> "next"
      [] is_client_error(answer.status) -> "return"
      [] OTHER -> "next"

ConnectInitFields(hosts) ==
    /\ obj_nodes = hosts
    /\ host_idx = 1
    /\ connect_pc = "walk"
    /\ exec_conn = NoConn
    /\ error_limited = {}
    /\ exceptions = {}

\* lines 987-1019: one round of the loop over obj_nodes
ConnectHost ==
    /\ connect_pc = "walk"
    /\ host_idx <= Len(obj_nodes)
    /\ LET answer == obj_nodes[host_idx]
           round == connect_round(answer)
       IN /\ connect_pc' = CASE round = "return" -> "returned"
                              [] round = "raise" -> "raised"
                              [] OTHER -> "walk"
          /\ exec_conn' = IF round # "return" THEN exec_conn
                     ELSE [node |-> host_idx,
                           resp |-> IF answer.status = 100 THEN 0 ELSE answer.status,
                           error |-> IF is_success(answer.status) \/ answer.status = 100
                                     THEN "" ELSE "body"]
          /\ error_limited' = IF answer.raises = "" /\ answer.status = 507
                                 /\ ~is_success(answer.status)
                              THEN error_limited \cup {host_idx} ELSE error_limited
          /\ exceptions' = IF answer.raises = "Exception"
                           THEN exceptions \cup {host_idx} ELSE exceptions
          /\ host_idx' = IF round = "next" THEN host_idx + 1 ELSE host_idx
    /\ UNCHANGED obj_nodes
    /\ UNCHANGED nsVars
    /\ UNCHANGED parseVars
    /\ UNCHANGED postVars
    /\ UNCHANGED manifestVars
    /\ UNCHANGED daemonVars
    /\ UNCHANGED sharedVars

\* the loop ends without a return: the function returns None
ConnectExhausted ==
    /\ connect_pc = "walk"
    /\ host_idx > Len(obj_nodes)
    /\ connect_pc' = "returned"
    /\ UNCHANGED <<obj_nodes, host_idx, exec_conn, error_limited, exceptions>>
    /\ UNCHANGED nsVars
    /\ UNCHANGED parseVars
    /\ UNCHANGED postVars
    /\ UNCHANGED manifestVars
    /\ UNCHANGED daemonVars
    /\ UNCHANGED sharedVars

\* =========================================================================
\* Daemon preload (ProxyQueryMiddleware.parse_daemon_config)
\* =========================================================================
\* the number of (socket, config file) pairs of daemon_list
MaxDaemons == 2

DaemonSocks == {"s1", "s2"}

\* a member of a packaged image as parse_location returns it
ImagePath(image, member) == [kind |-> "image", url |-> <<member>>, host |-> "", image |-> image]

\* is_image_path (zerocloud.common)
is_image_path(path) == path.kind = "image"

\* a worker as the parser leaves it for a daemon config
DaemonNode(name, exe, bind, connect, devices) ==
    [name |-> name, exe |-> exe, bind |-> bind, connect |-> connect,
     channels |-> [k \in 1..Len(devices) |->
                      ZvmChannel(devices[k], DeviceAccess(devices[k]), NoPath)]]

\* What json.load(open(conf_file)) and parser.parse give for the config
\* files there are: an IOError, a ClusterConfigParsingError, or parser.nodes.
ConfigFiles ==
    LET exe == ImagePath("python", "bin/python")
        one(e) == [n \in {"a"} |-> DaemonNode("a", e, <<>>, <<>>, <<"stdout", "stdin">>)]
    IN [missing |-> [kind |-> "IOError"],
        invalid |-> [kind |-> "ClusterConfigParsingError"],
        one |-> [kind |-> "nodes", nodes |-> one(exe)],
        swift_exe |-> [kind |-> "nodes", nodes |-> one(SwiftPath(<<"exe">>))],
        other_image |-> [kind |-> "nodes", nodes |-> one(ImagePath("ruby", "bin/ruby"))],
        pair |-> [kind |-> "nodes",
                  nodes |-> [n \in {"a", "b"} |->
                               DaemonNode(n, exe, <<>>, <<>>, <<"stdout">>)]],
        wired |-> [kind |-> "nodes",
                   nodes |-> [n \in {"a", "b"} |->
                                IF n = "a"
                                THEN DaemonNode(n, exe, <<>>,
                                                <<(<<"b", <<"/dev/out/", "b">> >>)>>,
                                                <<"stdout">>)
                                ELSE DaemonNode(n, exe,
                                                <<(<<"a", <<"/dev/in/", "a">> >>)>>,
                                                <<>>, <<"stdout">>)]]]

\* the daemon lists: socket and config file in turn, and lists with a socket
\* that has no config file behind it
RECURSIVE DaemonPairs(_)
DaemonPairs(n) ==
    IF n = 0 THEN {<<>>}
    ELSE DaemonPairs(n - 1) \cup
            {l \o <<s, f>> : l \in {p \in DaemonPairs(n - 1) : Len(p) = 2 * (n - 1)},
                             s \in DaemonSocks, f \in DOMAIN ConfigFiles}

DaemonLists == {l \o t : l \in DaemonPairs(MaxDaemons), t \in {<<>>, <<"s1">>}}

\* the device names in the order sorted() gives them
DeviceOrder == <<"debug", "image", "input", "output", "stderr", "stdin", "stdout">>

DeviceRank(device) == CHOOSE i \in 1..Len(DeviceOrder) : DeviceOrder[i] = device

\* sorted(node.channels, key=lambda ch: ch.device) (line 280): stable
RECURSIVE SortChannels(_)
SortChannels(chs) ==
    IF chs = <<>> THEN <<>>
    ELSE LET first == CHOOSE i \in 1..Len(chs) :
                         \A j \in 1..Len(chs) :
                            \/ DeviceRank(chs[i].device) < DeviceRank(chs[j].device)
                            \/ DeviceRank(chs[i].device) = DeviceRank(chs[j].device) /\ i <= j
             rest == [k \in 1..(Len(chs) - 1) |-> IF k < first THEN chs[k] ELSE chs[k + 1]]
         IN <<chs[first]>> \o SortChannels(rest)

\* lines 267-282 for one node: the warning it ends with, or "Loaded"
DaemonVerdict(node) ==
    IF node.bind # <<>> \/ node.connect # <<>> THEN "network channels are present"
    ELSE IF ~is_image_path(node.exe) THEN "exe path must be in image file"
    ELSE IF node.exe.image \notin sysimage_devices THEN "exe is not in sysimage device"
    ELSE "Loaded"

\* lines 266-282: the loop over parser.nodes.itervalues(), in the order
\* `order` of the dict
RECURSIVE LoadNodes(_, _, _, _)
LoadNodes(r, sock, ns, order) ==
    IF order = <<>> THEN r
    ELSE LET node == ns[Head(order)]
             verdict == DaemonVerdict(node)
         IN LoadNodes(
               [result |-> IF verdict = "Loaded"
                           THEN Append(r.result,
                                       <<sock, [node EXCEPT !.channels = SortChannels(@)]>>)
                           ELSE r.result,
                log |-> Append(r.log, verdict)],
               sock, ns, Tail(order))

\* the orders a dict of these names can be iterated in
Orders(names) ==
    {o \in [1..Cardinality(names) -> names] : \A i, j \in DOMAIN o : i # j => o[i] # o[j]}

\* parse_daemon_config up to its loop (lines 242-245)
DaemonInitFields(list) ==
    /\ daemon_list = list
    /\ daemon_idx = 1
    /\ socks = {}
    /\ daemon_result = <<>>
    /\ daemon_log = <<>>
    /\ daemon_pc = "loop"

\* one round of the loop over zip(*[iter(daemon_list)] * 2) (lines 246-282)
DaemonEntry ==
    /\ daemon_pc = "loop"
    /\ 2 * daemon_idx <= Len(daemon_list)
    /\ daemon_idx' = daemon_idx + 1
    /\ LET sock == daemon_list[2 * daemon_idx - 1]
           conf == ConfigFiles[daemon_list[2 * daemon_idx]]
       IN IF sock \in socks
          THEN /\ daemon_log' = Append(daemon_log, "Duplicate daemon config")
               /\ UNCHANGED <<socks, daemon_result>>
          ELSE /\ socks' = socks \cup {sock}
               /\ IF conf.kind = "IOError"
                  THEN /\ daemon_log' = Append(daemon_log, "Cannot load daemon config file")
                       /\ UNCHANGED daemon_result
                  ELSE IF conf.kind = "ClusterConfigParsingError"
                  THEN /\ daemon_log' = Append(daemon_log, "Daemon config error")
                       /\ UNCHANGED daemon_result
                  ELSE \E order \in Orders(DOMAIN conf.nodes) :
                          LET log == IF Cardinality(DOMAIN conf.nodes) # 1
                                     THEN Append(daemon_log, "too many nodes")
                                     ELSE daemon_log
                              r == LoadNodes([result |-> daemon_result, log |-> log],
                                             sock, conf.nodes, order)
                          IN /\ daemon_result' = r.result
                             /\ daemon_log' = r.log
    /\ UNCHANGED <<daemon_list, daemon_pc>>
    /\ UNCHANGED nsVars
    /\ UNCHANGED parseVars
    /\ UNCHANGED postVars
    /\ UNCHANGED manifestVars
    /\ UNCHANGED connectVars
    /\ UNCHANGED sharedVars

\* line 283: return result
DaemonReturn ==
    /\ daemon_pc = "loop"
    /\ 2 * daemon_idx > Len(daemon_list)
    /\ daemon_pc' = "returned"
    /\ UNCHANGED <<daemon_list, daemon_idx, socks, daemon_result, daemon_log>>
    /\ UNCHANGED nsVars
    /\ UNCHANGED parseVars
    /\ UNCHANGED postVars
    /\ UNCHANGED manifestVars
    /\ UNCHANGED connectVars
    /\ UNCHANGED sharedVars

\* =========================================================================
\* Shared containers (SharedContainersMiddleware.handle_shared)
\* =========================================================================
\* the accounts and containers a request can name; none needs unquoting
SharedAccounts == {"bob", "g_7"}

SharedContainers == {"c1", "c2"}

\* request.remote_user: none, or the account of the authenticated user
RemoteUsers == {"", "alice"}

\* self.shared_container_add and self.shared_container_remove (lines 19-20)
shared_container_add == "load-share"

shared_container_remove == "drop-share"

\* self.google_prefix (line 22)
google_prefix == "g_"

\* liteauth.get_account_from_whitelist: the account id the whitelist holds
\* for a shared account, "" when it holds none
WhitelistId(shared_account) == IF shared_account = "bob" THEN "g_7" ELSE ""

\* acc_id.startswith(self.google_prefix)
IsGoogleId(acc_id) == acc_id = "g_7"

\* '%s/%s' % (shared_account, shared_container)
SharedKey(shared_account, shared_container) == <<shared_account, "/", shared_container>>

\* a handle_shared that deletes the key it was asked to add when the
\* metadata cannot be stored
handle_shared_undoing(meta, url, version, account, shared_account, shared_container, stored) ==
    IF account = "" THEN [status |-> 401, meta |-> meta]
    ELSE LET mapped == url # "" /\ IsGoogleId(WhitelistId(shared_account))
             key == SharedKey(IF mapped THEN WhitelistId(shared_account)
                              ELSE shared_account, shared_container)
         IN IF version = shared_container_remove /\ key \notin DOMAIN meta
            THEN [status |-> 404, meta |-> meta]
            ELSE IF stored
            THEN [status |-> 200,
                  meta |-> IF version = shared_container_add
                           THEN Put(meta, key, IF mapped THEN shared_account ELSE "shared")
                           ELSE [k \in DOMAIN meta \ {key} |-> meta[k]]]
            ELSE [status |-> 404, meta |-> [k \in DOMAIN meta \ {key} |-> meta[k]]]

\* handle_shared (lines 47-80) for the stored metadata `meta` of the user's
\* account; `stored` is what liteauth.store_metadata answers.  The result is
\* the status of the response and the metadata stored afterwards.
handle_shared(meta, url, version, account, shared_account, shared_container, stored) ==
    IF account = "" THEN [status |-> 401, meta |-> meta]
    ELSE LET mapped == url # "" /\ IsGoogleId(WhitelistId(shared_account))
             email == IF mapped THEN shared_account ELSE "shared"
             acc == IF mapped THEN WhitelistId(shared_account) ELSE shared_account
             key == SharedKey(acc, shared_container)
         IN IF version = shared_container_add
            THEN IF stored THEN [status |-> 200, meta |-> Put(meta, key, email)]
                 ELSE [status |-> 404, meta |-> meta]
            ELSE IF key \notin DOMAIN meta
            THEN [status |-> 404, meta |-> meta]
            ELSE IF stored
            THEN [status |-> 200, meta |-> [k \in DOMAIN meta \ {key} |-> meta[k]]]
            ELSE [status |-> 404, meta |-> meta]

NoRequest == [version |-> "", remote_user |-> "", account |-> "", container |-> ""]

\* the middleware as configured, before its first request
SharedInitFields(url) ==
    /\ whitelist_url = url
    /\ shared_meta = EmptyMap
    /\ shared_request = NoRequest
    /\ shared_status = 0

\* __call__ (lines 29-39) for a load-share or drop-share request that names
\* a container, and the handle_shared it returns
HandleShared ==
    /\ \E version \in {shared_container_add, shared_container_remove},
          user \in RemoteUsers, acc \in SharedAccounts, cont \in SharedContainers,
          stored \in BOOLEAN :
          LET r == handle_shared(shared_meta, whitelist_url, version, user, acc, cont,
                                 stored)
          IN /\ shared_request' = [version |-> version, remote_user |-> user,
                                   account |-> acc, container |-> cont]
             /\ shared_status' = r.status
             /\ shared_meta' = r.meta
    /\ UNCHANGED whitelist_url
    /\ UNCHANGED nsVars
    /\ UNCHANGED parseVars
    /\ UNCHANGED postVars
    /\ UNCHANGED manifestVars
    /\ UNCHANGED connectVars
    /\ UNCHANGED daemonVars

\* =========================================================================
\* Specifications
\* =========================================================================
NSIdle ==
    /\ NSInitFields(0)
    /\ ns_thread = "none"

ParserIdle == ParserInitFields(<<>>)

ManifestIdle == ManifestInitFields(NoConfig, FALSE)

ConnectIdle == ConnectInitFields(<<>>)

DaemonIdle == DaemonInitFields(<<>>)

SharedIdle == SharedInitFields("")

InitNS ==
    /\ NSInitFields(Cardinality(PeerIds))
    /\ ns_thread = "running"
    /\ ParserIdle
    /\ PostInitFields
    /\ ManifestIdle
    /\ ConnectIdle
    /\ DaemonIdle
    /\ SharedIdle

NextNS == NSRegister \/ NSResubmit \/ NSStop

SpecNS == InitNS /\ [][NextNS]_vars

InitParse ==
    /\ NSIdle
    /\ \E job \in Jobs : ParserInitFields(job)
    /\ PostInitFields
    /\ ManifestIdle
    /\ ConnectIdle
    /\ DaemonIdle
    /\ SharedIdle

NextParse == ParseNode \/ WireNode \/ PostPass \/ PostBuildConnectStrings

SpecParse == InitParse /\ [][NextParse]_vars

InitPost ==
    /\ NSIdle
    /\ ParserIdle
    /\ PostInitFields
    /\ ManifestIdle
    /\ ConnectIdle
    /\ DaemonIdle
    /\ SharedIdle

NextPost ==
    \/ PostReadConfig \/ PostParse \/ PostOwnAddress \/ PostNameService
    \/ PostPrepareNode \/ PostConnect \/ PostHandshake \/ SenderFails
    \/ PostStream \/ PostProcessResponse \/ PostDemuxMember \/ PostCollect

SpecPost == InitPost /\ [][NextPost]_vars

InitManifest ==
    /\ NSIdle
    /\ ParserIdle
    /\ PostInitFields
    /\ \E c \in ManifestConfigs, self \in BOOLEAN : ManifestInitFields(c, self)
    /\ ConnectIdle
    /\ DaemonIdle
    /\ SharedIdle

NextManifest == ManifestChannel \/ ManifestNetwork \/ ManifestStdDevices \/ ManifestFinish

SpecManifest == InitManifest /\ [][NextManifest]_vars

InitConnect ==
    /\ NSIdle
    /\ ParserIdle
    /\ PostInitFields
    /\ ManifestIdle
    /\ \E hosts \in HostLists(MaxHosts) : ConnectInitFields(hosts)
    /\ DaemonIdle
    /\ SharedIdle

NextConnect == ConnectHost \/ ConnectExhausted

SpecConnect == InitConnect /\ [][NextConnect]_vars

InitDaemon ==
    /\ NSIdle
    /\ ParserIdle
    /\ PostInitFields
    /\ ManifestIdle
    /\ ConnectIdle
    /\ \E list \in DaemonLists : DaemonInitFields(list)
    /\ SharedIdle

NextDaemon == DaemonEntry \/ DaemonReturn

SpecDaemon == InitDaemon /\ [][NextDaemon]_vars

InitShared ==
    /\ NSIdle
    /\ ParserIdle
    /\ PostInitFields
    /\ ManifestIdle
    /\ ConnectIdle
    /\ DaemonIdle
    /\ \E url \in {"", "/v1/liteauth/whitelist"} : SharedInitFields(url)

NextShared == HandleShared

SpecShared == InitShared /\ [][NextShared]_vars

\* =========================================================================
\* Claims
\* =========================================================================
\* ----------------------------------------------------------- planner claims
Workers == DOMAIN nodes

RECURSIVE SumOver(_)
SumOver(S) ==
    IF S = {} THEN 0
    ELSE LET n == CHOOSE x \in S : TRUE IN nodes[n].replicate + SumOver(S \ {n})

\* C1: after a successful parse the workers of node_list have pairwise
\* distinct names, their ids are exactly 1..N for N workers, and total_count
\* is the sum of their replicate values.
C1_UniqueWorkerIdentity ==
    parse_pc = "done" =>
       /\ \A i, j \in 1..Len(node_list) :
             i # j => nodes[node_list[i]].name # nodes[node_list[j]].name
       /\ {nodes[node_list[i]].id : i \in 1..Len(node_list)} = 1..Len(node_list)
       /\ {node_list[i] : i \in 1..Len(node_list)} = Workers
       /\ total_count = SumOver(Workers)

\* a parse that planned three workers or more, one of them replicated
C1_Witness ==
    /\ parse_pc = "done"
    /\ Len(node_list) >= 3
    /\ \E n \in Workers : nodes[n].replicate > 1

\* the entries of a bind or connect list that name worker n
Naming(list, n) == {i \in 1..Len(list) : list[i][1] = n}

\* C2: after a successful parse, for all workers A and B, A.connect names B
\* as often as B.bind names A, and no worker names itself in bind or connect.
C2_ConnectionSymmetry ==
    parse_pc = "done" =>
       \A A, B \in Workers :
          /\ Cardinality(Naming(nodes[A].connect, B)) = Cardinality(Naming(nodes[B].bind, A))
          /\ Naming(nodes[A].connect, A) = {}
          /\ Naming(nodes[A].bind, A) = {}

\* a parse that connected a worker to the members of a group it belongs to
C2_Witness ==
    /\ parse_pc = "done"
    /\ \E A, B \in Workers : A # B /\ Naming(nodes[A].connect, B) # {}
                              /\ Naming(nodes[B].connect, A) # {}

\* the job nodes that name themselves in their connect list
SelfNaming == {i \in 1..Len(cluster_config) :
                 \E k \in 1..Len(cluster_config[i].connect) :
                    cluster_config[i].connect[k] = cluster_config[i].name}

\* C3 as claimed: the parse of a job in which a node names itself in its
\* connect list, planned as one worker or as a group, does not succeed.
C3_SelfConnectFails == parse_pc = "done" => SelfNaming = {}

\* the workers name-1, name-2, ... _add_connection walks for a group
RECURSIVE GroupOf(_, _)
GroupOf(name, i) ==
    IF create_node_name(name, i) \in Workers
    THEN {create_node_name(name, i)} \cup GroupOf(name, i + 1)
    ELSE {}

\* C3 as amended: a node that names itself in its connect list and is planned
\* as one worker of that name makes the parse fail, with 'Cannot bind to
\* itself' when that entry is the first one wired; planned as a group
\* name-1..name-k it does not: each member of the group is connected to every
\* other member, and none to itself.
C3_SelfConnectSingleFails ==
    /\ [](parse_pc = "done" =>
            \A i \in SelfNaming :
               LET name == cluster_config[i].name
               IN /\ name \notin Workers
                  /\ \A m \in GroupOf(name, 1) :
                        /\ \A o \in GroupOf(name, 1) \ {m} :
                              Naming(nodes[m].connect, o) # {}
                        /\ Naming(nodes[m].connect, m) = {})
    /\ [][(parse_pc = "connect" /\ node_idx \in SelfNaming
           /\ cluster_config[node_idx].name \in Workers)
          => /\ parse_pc' = "failed"
             /\ (Head(cluster_config[node_idx].connect) = cluster_config[node_idx].name
                 /\ cluster_config[node_idx].name \notin DOMAIN connect_devices)
                => parse_err' = "Cannot bind to itself"]_vars

\* a successful parse of a node that names itself and was planned as a group
\* of two or more
C3_Witness ==
    /\ parse_pc = "done"
    /\ \E i \in SelfNaming : Cardinality(GroupOf(cluster_config[i].name, 1)) >= 2

\* the list of lines 192-205 a channel of this device is put on:
\* 0 READ, 1 CDR, 2 WRITE, 3 other
ClassOf(device) ==
    LET access == DeviceAccess(device)
    IN IF access < 0 THEN 3
       ELSE IF BitAnd(access, ACCESS_READABLE) # 0 THEN 0
       ELSE IF BitAnd(access, ACCESS_CDR) # 0 THEN 1
       ELSE IF BitAnd(access, ACCESS_WRITABLE) # 0 THEN 2
       ELSE 3

InClassOrder(channels) ==
    \A i, j \in 1..Len(channels) :
       i < j => ClassOf(channels[i].device) <= ClassOf(channels[j].device)

\* C4 as claimed: after a successful parse, also one with add_user_image,
\* each worker's channels are in the order READ, APPEND/CDR, WRITE, other.
C4_ChannelOrder ==
    parse_pc = "done" => \A n \in Workers : InClassOrder(nodes[n].channels)

\* no job node has the name of another job node or of a worker of its group
NoNameClash ==
    \A i, j \in 1..Len(cluster_config) :
       i # j => /\ cluster_config[j].name # cluster_config[i].name
                /\ \A k \in 1..MaxIndex :
                      cluster_config[j].name # create_node_name(cluster_config[i].name, k)

\* C4 as amended: after a successful parse of a job whose nodes plan workers
\* of different names, each worker's channels are in the order READ,
\* APPEND/CDR, WRITE, other, but for the user-image channel, which
\* add_user_image puts last.
C4_ChannelOrderBeforeUserImage ==
    (parse_pc = "done" /\ NoNameClash) =>
       \A n \in Workers :
          LET channels == nodes[n].channels
          IN IF add_user_image
             THEN /\ InClassOrder(SubSeq(channels, 1, Len(channels) - 1))
                  /\ channels[Len(channels)] = ZvmChannel("image", ACCESS_CDR, NoPath)
             ELSE InClassOrder(channels)

\* a worker with a READ, a WRITE and another channel, and the user image
C4_Witness ==
    /\ parse_pc = "done" /\ add_user_image /\ NoNameClash
    /\ \E n \in Workers :
          {0, 2, 3} \subseteq {ClassOf(nodes[n].channels[i].device) :
                                 i \in 1..(Len(nodes[n].channels) - 1)}

\* the file_list entries of a job node with a wildcard in a swift path, on
\* the lists of the given classes
WildEntries(node, classes) ==
    {i \in 1..Len(node.file_list) :
        /\ is_swift_path(node.file_list[i].path)
        /\ HasStar(node.file_list[i].path.url)
        /\ ClassOf(node.file_list[i].device) \in classes}

\* the channels an iteration of the first loop gave worker n from the
\* wildcard write entry e of its job node: <<channel, pattern>>
Produced(n, e) ==
    LET old == IF n \in DOMAIN nodes THEN Len(nodes[n].channels) ELSE 0
    IN {nodes'[n].channels[p] : p \in {q \in (old + 1)..Len(nodes'[n].channels) :
                                         nodes'[n].channels[q].device = e.device}}

\* an iteration of the first loop that expanded a read wildcard and went well
ExpandedReads ==
    /\ parse_pc = "nodes" /\ parse_pc' # "failed"
    /\ WildEntries(cluster_config[node_idx], {0, 1}) # {}

\* C5 as claimed: a write path produced from a wildcarded write path for a
\* worker that stored K captures has no '*' and is the write path with
\* exactly K '*' replaced by the K captures from left to right.
C5_WildcardConservation ==
    [][ExpandedReads =>
         \A n \in DOMAIN nodes', i \in WildEntries(cluster_config[node_idx], {2}) :
            \A c \in Produced(n, cluster_config[node_idx].file_list[i]) :
               LET pattern == cluster_config[node_idx].file_list[i].path.url
               IN /\ ~HasStar(c.path.url)
                  /\ CountStars(pattern) = Len(nodes'[n].wildcards)
                  /\ c.path.url = Fill(pattern, nodes'[n].wildcards)]_vars

\* C5 as amended: a write path produced from a wildcarded write path with J
\* '*' for a worker that stored K captures has no '*'; when no capture holds
\* a '*', J <= K and the path is the write path with its J '*' replaced by
\* the first J captures from left to right (with J > K the parse fails).
C5_WildcardsFilledInOrder ==
    [][ExpandedReads =>
         \A n \in DOMAIN nodes', i \in WildEntries(cluster_config[node_idx], {2}) :
            \A c \in Produced(n, cluster_config[node_idx].file_list[i]) :
               LET pattern == cluster_config[node_idx].file_list[i].path.url
                   caps == nodes'[n].wildcards
               IN /\ ~HasStar(c.path.url)
                  /\ ~HasStar(caps) =>
                        /\ CountStars(pattern) <= Len(caps)
                        /\ c.path.url = Fill(pattern, SubSeq(caps, 1, CountStars(pattern)))]_vars

\* a worker that stored two captures and was given the path of a write path
\* of two wildcards, and one given the path of a write path of one wildcard
C5_Witness ==
    /\ parse_pc = "done"
    /\ \E n \in Workers :
          /\ Len(nodes[n].wildcards) = 2
          /\ \E i \in 1..Len(nodes[n].channels) :
                /\ nodes[n].channels[i].device \in {"stderr", "output"}
                /\ nodes[n].channels[i].path.url \in
                      {Fill(<<Star, ".", Star>>, nodes[n].wildcards),
                       Fill(<<"out/", Star>>, nodes[n].wildcards)}

\* ------------------------------------------------------ orchestrator claims
\* C6: when POST returns after it started the name service, on whatever
\* path, NameService.stop has been called.
C6_NameServiceStopped == post_pc = "returned" => ns_thread # "running"

\* ------------------------------------------------------ name-service claims
Registered == DOMAIN peer_map

RepliesTo(p, log) == {i \in 1..Len(log) : log[i].peer = p}

\* C7: no reply is sent while fewer than `peers` distinct peer ids have
\* registered, and once `peers` of them have registered every registered
\* peer has been sent a reply at its origin address.
C7_RepliesWhenAllRegistered ==
    /\ Cardinality(Registered) < peers => sent = <<>>
    /\ Cardinality(Registered) = peers =>
          \A p \in Registered : RepliesTo(p, sent) # {}

\* the reply entry e answers the registration orig of peer e.peer: header and
\* bind records are untouched, each connect slot naming T carries the port T
\* registered for e.peer and T's source ip (127.0.0.1 on the same host)
Resolved(e, orig, bm, pm) ==
    LET q == e.peer
        r == e.reply
        slots == (orig.bind_count + 1)..(orig.bind_count + orig.connect_count)
    IN /\ e.to = pm[q]
       /\ r.peer_id = orig.peer_id
       /\ r.bind_count = orig.bind_count
       /\ r.connect_count = orig.connect_count
       /\ Len(r.recs) = Len(orig.recs)
       /\ \A k \in 1..Len(orig.recs) :
             IF k \in slots
             THEN LET T == orig.recs[k][1]
                  IN /\ T \in DOMAIN pm /\ T \in DOMAIN bm /\ q \in DOMAIN bm[T]
                     /\ r.recs[k][2] = bm[T][q]
                     /\ r.recs[k][2] = BindPort(T)
                     /\ r.recs[k][1] = IF pm[T][1] = pm[q][1] THEN Localhost
                                        ELSE pm[T][1]
             ELSE r.recs[k] = orig.recs[k]

\* C8: in every reply sent to a peer P, each connect slot that named target
\* T holds the port T registered in its bind record for P and T's source ip,
\* replaced by 127.0.0.1 exactly when T and P registered from the same ip.
C8_ReplyResolvesSlots ==
    [][\A p \in PeerIds, h \in SourceHosts : \A m \in Datagrams(p) :
         NSReceive(m, SourceAddress(h)) =>
           \A i \in (Len(sent) + 1)..Len(sent') :
              Resolved(sent'[i],
                       IF sent'[i].peer = m.peer_id THEN m
                       ELSE conn_map[sent'[i].peer].reply,
                       bind_map', peer_map')]_vars

\* a reply with a slot resolved to another host and one resolved to 127.0.0.1
C8_Witness ==
    /\ \E i \in 1..Len(sent) : \E k \in 1..Len(sent[i].reply.recs) :
          sent[i].reply.recs[k][1] = Localhost
    /\ \E i \in 1..Len(sent) : \E k \in 1..Len(sent[i].reply.recs) :
          sent[i].reply.recs[k][1] \in SourceHosts

\* C9: over the lifetime of a name service each peer is sent at most one
\* reply datagram.
C9_AtMostOneReply ==
    \A p \in PeerIds : Cardinality(RepliesTo(p, sent)) <= 1

LastReplyTo(p, log) ==
    log[CHOOSE i \in RepliesTo(p, log) : \A j \in RepliesTo(p, log) : j <= i].reply

\* C10: a reply sent to a peer that submits its registration datagram once
\* more (same bytes, same origin) has the bytes of the reply the peer was
\* sent before.
C10_ResubmitSameReply ==
    [][\A p \in PeerIds :
         (Resubmit(p) /\ RepliesTo(p, sent) # {}) =>
            \A i \in (Len(sent) + 1)..Len(sent') :
               sent'[i].peer = p => sent'[i].reply = LastReplyTo(p, sent)]_vars

\* -------------------------------------------------------- failure claims
\* the messages of the ClusterConfigParsingErrors parse raises
ParsingErrors ==
    {InternalError, "Invalid node count", "Unknown device",
     "Readable device must be a swift object", "No objects found in path",
     "Wildcards in input cannot be resolved into output path",
     "Single path for multiple node definition",
     "Immediate response is not available for device",
     "Path is required for device", "Cannot bind to itself",
     "Cannot resolve wildcard for node", "Non-existing node in connect",
     "Non existing node in connect string for node"}

\* C12: whenever parse fails, in classification, expansion, wiring or the
\* last pass, also on a malformed connect list, what it raises is a
\* ClusterConfigParsingError.
C12_OnlyParsingErrors == parse_pc = "failed" => parse_err \in ParsingErrors

\* C11: when parse fails for a submitted job, POST returns a 400 response
\* whose body is the error message, and no name service was started, no data
\* source fetched and no backend connection opened.
C11_ParseFailureIs400 ==
    parse_pc = "failed" =>
       /\ post_pc = "returned"
       /\ response = 400
       /\ body = parse_err
       /\ ns_thread = "none"
       /\ fetched = <<>>
       /\ conns = <<>>

\* the connections _process_response is through with, and those it left an
\* error on
Collected == {i \in 1..Len(conns) : conns[i].done}

FailedInCollection == {i \in Collected : conns[i].error # ""}

FailedConns == {i \in 1..Len(conns) : conns[i].failed}

\* the connections the data source at hand is fanned out to
ConnsOfSource == {i \in 1..Len(conns) :
              \E j \in 1..Len(data_sources[post_src].nodes) :
                 data_sources[post_src].nodes[j].node = conns[i].cnode}

\* C16 as stated: a connection with its failed flag set does not stop the
\* driver (its writes are skipped, the other connections and the remaining
\* sources are written), so that the driver never gives up with a 503.
C16_FailedIsSkipped ==
    FailedConns # {} => ~(post_pc = "returned" /\ response = 503)

\* C16, amended: nothing is put on the queue of a connection whose failed
\* flag is set, and the driver gets through a source fanned out to such a
\* connection only if, its header left out, no chunk of data or padding and
\* no final flush falls due for it; the driver gives up with a 503 only when
\* a connection of the source has failed.
C16_FailedConnectionEndsJob ==
    [][post_pc = "stream" =>
          LET src == data_sources[post_src]
              held(i) == ((conns[i].data + BLOCKSIZE) % ChunkSize)
                            + get_archive_size(src.content_length)
          IN /\ \A i \in FailedConns :
                   /\ conns'[i].queue = conns[i].queue
                   /\ (i \in ConnsOfSource /\ (post_src' = post_src + 1 \/ post_pc' = "collect")) =>
                         /\ held(i) < ChunkSize
                         /\ conns'[i].data = held(i)
                         /\ conns[i].last_data = Key(src) => held(i) = 0
             /\ (post_pc' = "returned" /\ response' = 503) => FailedConns \cap ConnsOfSource # {}]_vars

\* the driver wrote the first sources of a job of two connections and gave
\* up with a 503 at a later one, the first connection having failed
C16_Witness ==
    /\ post_pc = "returned"
    /\ response = 503
    /\ post_src > 1
    /\ Len(conns) = 2
    /\ FailedConns = {1}
    /\ conns[2].queue > 0

\* the data sources fanned out to a node, by their place in data_sources
SourcesOf(c) ==
    {k \in 1..Len(data_sources) :
        \E j \in 1..Len(data_sources[k].nodes) : data_sources[k].nodes[j].node = c}

\* the last of them in the order the driver takes data_sources in
LastSourceOf(c) == CHOOSE k \in SourcesOf(c) : \A l \in SourcesOf(c) : l <= k

\* C19: for every connection the source recorded as its last_data is the
\* last one, in the order the driver takes data_sources in, of the sources
\* fanned out to it, and the final flush is put on its queue once at most.
C19_FlushAfterLastSource ==
    post_pc \in {"connect", "handshake", "stream", "collect"} =>
       /\ \A c \in DOMAIN last_data :
             last_data[c] = Key(data_sources[LastSourceOf(c)])
       /\ \A i \in 1..Len(conns) : conns[i].flushes <= 1

\* C17: when every source delivered its content_length bytes and no
\* connection failed, the bytes put on the queue of each connection (tar
\* headers, payloads, padding and final flush of all its members) are as
\* many as the size its Content-Length was computed as.
C17_QueuedBytesEqualSize ==
    (post_pc = "collect" /\ FailedConns = {}) =>
       \A i \in 1..Len(conns) : conns[i].queue = conns[i].size

SysmapBefore(name) ==
    \E p, q \in 1..Len(demux.archive) :
       p < q /\ demux.archive[p] = "sysmap" /\ demux.archive[q] = name

\* C20 as stated: whatever the order of the members of an archive that
\* carries a sysmap, every output member is PUT or attached as the body with
\* the channel as the sysmap updated it.
C20_UpdatesBeforeOutputs ==
    (\E p \in 1..Len(demux.archive) : demux.archive[p] = "sysmap") =>
       \A k \in 1..Len(demux.puts) : demux.puts[k].content_type = "updated"

\* C20, amended: an output member is PUT or attached as the body with the
\* channel as the sysmap updated it if and only if the sysmap member comes
\* before it in the archive; a member ahead of the sysmap is honored with
\* the content type its channel was planned with.
C20_UpdatesInArchiveOrder ==
    \A k \in 1..Len(demux.puts) :
       demux.puts[k].content_type =
          IF SysmapBefore(demux.puts[k].device) THEN "updated" ELSE "default"

\* an archive of a sysmap and a member PUT after it with the updated channel
C20_Witness ==
    /\ demux.archive = <<"sysmap", "output">>
    /\ demux.puts = <<[device |-> "output", how |-> "PUT", status |-> 201,
                       content_type |-> "updated"]>>

\* the connections whose response has a member attached as immediate body,
\* in the order of node_list
ImmediateBodies == SelectSeq([i \in 1..Len(conns) |-> conns[i]],
                             LAMBDA conn : conn.resp = "body")

\* C21: when several workers returned an immediate body, the body of the
\* aggregated response is the concatenation of those bodies in the order of
\* node_list, and its content_length the sum of their lengths.
C21_BodiesInWorkerOrder ==
    (post_pc = "returned" /\ response = 200 /\ Len(ImmediateBodies) >= 2) =>
       /\ final.bodies = [k \in 1..Len(ImmediateBodies) |-> ImmediateBodies[k].cnode]
       /\ final.content_length = SumLengths(ImmediateBodies)

\* the entries of a bind or connect list
Entries(list) == {list[i] : i \in 1..Len(list)}

\* The job of C22 is parsed: node a (the src of the claim) with count 2, no
\* connect list and the file {device: stdout, path: zvm://b:/dev/stdin}
\* (X is stdout, Y is stdin), and node b (the dst), planned as one worker.
InterNodeJobParsed ==
    /\ parse_pc = "done"
    /\ Len(cluster_config) = 2
    /\ cluster_config[1].name = "a"
    /\ cluster_config[1].count = 2
    /\ cluster_config[1].connect = <<>>
    /\ Files.ZvmOut \in Entries(cluster_config[1].file_list)
    /\ cluster_config[2].name = "b"
    /\ DOMAIN nodes = {"a-1", "a-2", "b"}

ReadableObjectChannels(worker) ==
    {k \in 1..Len(worker.channels) :
        /\ is_swift_path(worker.channels[k].path)
        /\ BitAnd(worker.channels[k].access, BitOr(ACCESS_READABLE, ACCESS_CDR)) # 0
        /\ ~is_sysimage_device(worker.channels[k].device)}

\* a fetched object is fanned out to this device of this node
FannedOut(path, cnode, device) ==
    \E i \in 1..Len(data_sources) :
       /\ data_sources[i].kind = "object"
       /\ path = <<>> \/ data_sources[i].path = path
       /\ \E j \in 1..Len(data_sources[i].nodes) :
             data_sources[i].nodes[j] = [node |-> cnode, dev |-> device]

\* the data sources of the job are assembled
Assembled == post_pc \in {"connect", "handshake", "stream", "collect"}

\* C23 as stated: every readable object channel of every planned worker has
\* a fetched-object data source with the worker and the device in its
\* fan-out list.
C23_EveryReadableChannelFetched ==
    Assembled =>
       \A w \in DOMAIN nodes : \A k \in ReadableObjectChannels(nodes[w]) :
          FannedOut(nodes[w].channels[k].path.url, <<w, 0>>, nodes[w].channels[k].device)

\* C23, amended: every readable object channel after the first channel of a
\* worker has a fetched-object data source with the worker (and its
\* replicas) and the device in its fan-out list; the first channel of a
\* worker, the one its path_info is taken from, is in the fan-out list of no
\* fetched object.
C23_ReadableChannelsAfterFirstFetched ==
    Assembled =>
       \A w \in DOMAIN nodes :
          LET copies == Copies(nodes[w])
          IN \A c \in 1..Len(copies) :
                /\ \A k \in ReadableObjectChannels(nodes[w]) \ {1} :
                      FannedOut(nodes[w].channels[k].path.url, copies[c],
                                nodes[w].channels[k].device)
                /\ ~FannedOut(<<>>, copies[c], nodes[w].channels[1].device)

\* the job of one worker with the channels stdin (an object) and stdout:
\* its archive holds the sysmap and the executable, and no stdin member
C23_Witness ==
    /\ post_pc = "collect"
    /\ DOMAIN nodes = {"a"}
    /\ ReadableObjectChannels(nodes["a"]) = {1}
    /\ Len(conns) = 1
    /\ [k \in 1..Len(conns[1].members) |-> conns[1].members[k].dev] = <<"sysmap", "boot">>

\* ---------------------------------------------------------- manifest claims
\* the Channel= lines of the manifest that map something to /dev/<device>
LinesOf(device) ==
    SelectSeq(zerovm_inputmnfst, LAMBDA line : line.alias = <<"/dev/", device>>)

DeclaredDevices == {config.channels[k].device : k \in 1..Len(config.channels)}

NetworkBound ==
    {ConnDevice((config.connect \o config.bind)[k]) : k \in 1..NetworkRounds}

StdDevices == {STD_DEVICES[k] : k \in 1..Len(STD_DEVICES)}

\* C24: in a finished manifest every declared device, every standard device,
\* /dev/nvram and (with use_dev_self) /dev/self has exactly one Channel= line,
\* a standard device that is neither declared nor network-bound is mapped to
\* /dev/null, and fstab lists exactly the system-image channels and image.
C24_ManifestComplete ==
    ManifestDone =>
        /\ \A d \in DeclaredDevices \cup StdDevices \cup {"nvram"} : Len(LinesOf(d)) = 1
        /\ use_dev_self => Len(LinesOf("self")) = 1
        /\ \A d \in StdDevices \ (DeclaredDevices \cup NetworkBound) :
              LinesOf(d) = <<ManifestLine("/dev/null", d)>>
        /\ {fstab[k].channel[2] : k \in 1..Len(fstab)}
              = {d \in DeclaredDevices : is_sysimage_device(d) \/ d = "image"}
        /\ \A j, k \in 1..Len(fstab) : fstab[j].channel = fstab[k].channel => j = k

\* the same without asking that a device has no second line
C24_ManifestCoversDevices ==
    ManifestDone =>
        /\ \A d \in DeclaredDevices \cup StdDevices \cup {"nvram"} : Len(LinesOf(d)) >= 1
        /\ \A d \in (DeclaredDevices \cup StdDevices \cup {"nvram"}) \ NetworkBound :
              Len(LinesOf(d)) = 1
        /\ \A d \in NetworkBound :
              Len(LinesOf(d)) = Cardinality({k \in 1..NetworkRounds :
                                     ConnDevice((config.connect \o config.bind)[k]) = d})
                                + (IF d \in DeclaredDevices THEN 1 ELSE 0)
        /\ use_dev_self => Len(LinesOf("self")) = 1
        /\ \A d \in StdDevices \ (DeclaredDevices \cup NetworkBound) :
              LinesOf(d) = <<ManifestLine("/dev/null", d)>>
        /\ {fstab[k].channel[2] : k \in 1..Len(fstab)}
              = {d \in DeclaredDevices : is_sysimage_device(d) \/ d = "image"}
        /\ \A j, k \in 1..Len(fstab) : fstab[j].channel = fstab[k].channel => j = k

\* two peers bind the stdin of a worker that declares no stdin channel
C24_Witness ==
    /\ ManifestDone
    /\ "stdin" \notin DeclaredDevices
    /\ Len(config.bind) = 2
    /\ \A k \in 1..2 : ConnDevice(config.bind[k]) = "stdin"
    /\ Len(LinesOf("stdin")) = 2

\* ------------------------------------------------------ connection claims
\* the candidates whose answer ends the walk with a connection
Answering == {i \in 1..Len(obj_nodes) :
                 /\ obj_nodes[i].raises = ""
                 /\ obj_nodes[i].status \in {100} \cup (200..299) \cup (400..499)}

TimingOut == {i \in 1..Len(obj_nodes) : obj_nodes[i].raises \in {"ConnectionTimeout", "Timeout"}}

First(S) == IF S = {} THEN 0 ELSE CHOOSE i \in S : \A j \in S : i <= j

\* the connection as returned for candidate i: resp unset after a 100, set
\* after a 2xx, and set together with the error after a 4xx
ConnectionOf(i) ==
    [node |-> i,
     resp |-> IF obj_nodes[i].status = 100 THEN 0 ELSE obj_nodes[i].status,
     error |-> IF obj_nodes[i].status >= 400 THEN "body" ELSE ""]

\* the walk passed the candidates before `last`: those that answered 507 are
\* error-limited, those that raised an Exception are logged
Passed(last) ==
    /\ error_limited = {i \in 1..(last - 1) : obj_nodes[i].raises = "" /\ obj_nodes[i].status = 507}
    /\ exceptions = {i \in 1..(last - 1) : obj_nodes[i].raises = "Exception"}

EndedShort ==
    /\ PostStream
    /\ timeout' = timeout
    /\ data_sources'[post_src].bytes_transferred < data_sources[post_src].content_length

LaterSourcesUntouched ==
    /\ post_pc' = "returned"
    /\ \A j \in (post_src + 1)..Len(data_sources) : data_sources'[j] = data_sources[j]

\* C26: a data source whose iterator ends short of its content_length cancels
\* the job with ClientDisconnect (499) and no later source is streamed; a read
\* of a source that exceeds client_timeout cancels the job with 408.
C26_ShortSourceDisconnects ==
    [][/\ EndedShort => response' = 499 /\ LaterSourcesUntouched
       /\ PostStream /\ timeout' = "client_timeout" =>
             response' = 408 /\ LaterSourcesUntouched]_vars

\* C26 (amended): the same, except that a chunk of the short source falling
\* due for a failed connection cancels the job with 503 before the length is
\* looked at.
C26_ShortSourceEndsJob ==
    [][/\ EndedShort =>
             /\ response' \in {499, 503}
             /\ response' = 503 => \E i \in 1..Len(conns) : conns[i].failed
             /\ (\A i \in 1..Len(conns) : ~conns[i].failed) =>
                   response' = 499 /\ body' = "data source dead"
             /\ LaterSourcesUntouched
       /\ PostStream /\ timeout' = "client_timeout" =>
             response' = 408 /\ LaterSourcesUntouched]_vars

\* the first of two sources came a byte short and the job was answered 499
C26_Witness ==
    /\ post_pc = "returned"
    /\ response = 499
    /\ Len(data_sources) >= 2
    /\ post_src = 1
    /\ data_sources[1].bytes_transferred = data_sources[1].content_length - 1
    /\ data_sources[2].bytes_transferred = 0

\* ---------------------------------------------------- collection claims
\* the archive of connection i has been worked on and demux still holds it
Demuxed(i) == /\ post_pc = "collect"
              /\ demux.conn = 0
              /\ conns[i].done
              /\ conns[i].resp \in {"body", "empty", "archive"}
              /\ \A j \in (i + 1)..Len(conns) : ~conns[j].done

\* the members of the archive that name a channel of the worker without path
BodyMembers(worker) ==
    {p \in 1..Len(demux.archive) :
        /\ get_channel(worker, demux.archive[p]) # 0
        /\ worker.channels[get_channel(worker, demux.archive[p])].path = NoPath}

\* the members that name a channel of the worker with an object path
ObjectMembers(worker) ==
    {p \in 1..Len(demux.archive) :
        /\ demux.archive[p] # "sysmap"
        /\ get_channel(worker, demux.archive[p]) # 0
        /\ is_swift_path(worker.channels[get_channel(worker, demux.archive[p])].path)}

PutOf(p) == \E q \in 1..Len(demux.puts) :
               demux.puts[q].device = demux.archive[p] /\ demux.puts[q].how = "PUT"

\* C27: in an archive whose members all name channels of the worker, the
\* first member of a channel without path is the client body, and every member
\* of an object channel that follows it is still PUT to storage.
C27_LaterMembersArePut ==
    \A i \in 1..Len(conns) :
        LET worker == nodes[conns[i].cnode[1]]
        IN (/\ Demuxed(i)
            /\ conns[i].error = ""
            /\ BodyMembers(worker) # {}) =>
              /\ conns[i].resp = "body"
              /\ \A p \in ObjectMembers(worker) : p > First(BodyMembers(worker)) => PutOf(p)

\* what holds instead: the first member of a channel without path is the
\* client body and ends the archive; exactly the object members before it
\* are PUT
C27_BodyMemberEndsArchive ==
    \A i \in 1..Len(conns) :
        LET worker == nodes[conns[i].cnode[1]]
        IN (/\ Demuxed(i)
            /\ conns[i].error = ""
            /\ BodyMembers(worker) # {}) =>
              /\ conns[i].resp = "body"
              /\ \A p \in ObjectMembers(worker) : PutOf(p) <=> p < First(BodyMembers(worker))

\* stdout comes first in the archive of a worker with stdout and output
C27_Witness ==
    /\ Len(conns) = 1
    /\ Demuxed(1)
    /\ conns[1].resp = "body"
    /\ demux.archive = <<"stdout", "output">>
    /\ ObjectMembers(nodes[conns[1].cnode[1]]) = {2}

\* the member the loop is at names no channel of the worker
UnknownMember ==
    /\ demux.pos <= Len(demux.archive)
    /\ demux.archive[demux.pos] # "sysmap"
    /\ get_channel(nodes[conns[demux.conn].cnode[1]], demux.archive[demux.pos]) = 0

\* the PUT that was just made was answered with a status >= 300
PutRefused ==
    /\ Len(demux'.puts) = Len(demux.puts) + 1
    /\ demux'.puts[Len(demux'.puts)].how = "PUT"
    /\ demux'.puts[Len(demux'.puts)].status >= 300

\* C28: a member that names no channel of the worker, or a PUT answered with
\* a status >= 300, sets the error of that worker's connection and ends the
\* work on its archive; the PUTs made before stay and the connections of the
\* other workers are left as they are.
C28_FailedMemberStopsArchive ==
    [][(PostDemuxMember /\ (UnknownMember \/ PutRefused)) =>
          /\ conns'[demux.conn].error # ""
          /\ conns'[demux.conn].done
          /\ demux'.conn = 0
          /\ demux'.pos = demux.pos
          /\ SubSeq(demux'.puts, 1, Len(demux.puts)) = demux.puts
          /\ \A j \in 1..Len(conns) : j # demux.conn => conns'[j] = conns[j]
          /\ post_pc' = "collect"]_vars

\* the first worker's archive ended at a refused PUT, and the second
\* worker's body was collected after it
C28_Witness ==
    /\ post_pc = "returned"
    /\ response = 200
    /\ Len(conns) = 2
    /\ conns[1].error = "Status when putting"
    /\ conns[2].error = ""
    /\ conns[2].resp = "body"

\* ---------------------------------------------------------- wiring claims
\* the workers planned for the job node of that name
WorkersOf(name) == IF name \in Workers THEN {name} ELSE GroupOf(name, 1)

Declared(i) == {cluster_config[i].connect[k] : k \in 1..Len(cluster_config[i].connect)}

\* the peers the zvm paths of the node's channels name
Discovered(i) ==
    IF cluster_config[i].name \in DOMAIN connect_devices
    THEN DOMAIN connect_devices[cluster_config[i].name] ELSE {}

Wired(w) == {q \in Workers : Naming(nodes[w].connect, q) # {}}

WorkersOfAll(names) == UNION {WorkersOf(p) : p \in names}

\* C29: after a successful parse every worker of a node is connected to the
\* workers of the peers of its declared connect list and to those of the peers
\* its zvm channels name, whether or not the connect list names them.
C29_WiredIsUnion ==
    (parse_pc = "done" /\ NoNameClash) =>
       \A i \in 1..Len(cluster_config) :
          \A w \in WorkersOf(cluster_config[i].name) :
             Wired(w) = WorkersOfAll(Declared(i) \cup Discovered(i)) \ {w}

\* what holds instead: the declared list alone when there is one, the
\* discovered peers only when there is none
C29_WiredIsDeclaredElseDiscovered ==
    (parse_pc = "done" /\ NoNameClash) =>
       \A i \in 1..Len(cluster_config) :
          \A w \in WorkersOf(cluster_config[i].name) :
             Wired(w) = WorkersOfAll(IF Declared(i) # {} THEN Declared(i)
                                     ELSE Discovered(i)) \ {w}

\* a parsed job whose node a connects its two workers to each other by its
\* connect list and names b in a zvm path
C29_Witness ==
    /\ parse_pc = "done"
    /\ NoNameClash
    /\ Declared(1) = {"a"}
    /\ Discovered(1) = {"b"}
    /\ DOMAIN nodes = {"a-1", "a-2", "b"}
    /\ Wired("a-1") = {"a-2"}

\* -------------------------------------------------- replication claims
\* the places of the wildcard read channels in the file_list of job node i
WildcardReads(i) ==
    {k \in 1..Len(cluster_config[i].file_list) :
        LET f == cluster_config[i].file_list[k]
        IN /\ is_swift_path(f.path)
           /\ HasStar(f.path.url)
           /\ BitAnd(DeviceAccess(f.device), ACCESS_READABLE) # 0}

\* the channels of the node that are no wildcard reads
OtherFiles(i) == (1..Len(cluster_config[i].file_list)) \ WildcardReads(i)

\* the workers that got a channel of that device
Holding(device) ==
    {w \in Workers : \E k \in 1..Len(nodes[w].channels) : nodes[w].channels[k].device = device}

\* the job is one node with several wildcard reads, and it is parsed
SeveralWildcardReads ==
    /\ parse_pc = "done"
    /\ Len(cluster_config) = 1
    /\ Cardinality(WildcardReads(1)) >= 2

\* the number of objects the first wildcard read of the node matched: one
\* worker gets a channel of its device for each
FirstMatched == Cardinality(Holding(cluster_config[1].file_list[First(WildcardReads(1))].device))

\* C30: in a node with several wildcard reads the number of workers created,
\* and the number of workers that get each write or other channel of the
\* node, is the number of objects matched by the first wildcard read.
C30_FirstWildcardGoverns ==
    SeveralWildcardReads =>
       /\ Cardinality(Workers) = FirstMatched
       /\ \A k \in OtherFiles(1) :
             Cardinality(Holding(cluster_config[1].file_list[k].device)) = FirstMatched

\* what holds of it: each write or other channel of the node goes to as
\* many workers as the first declared wildcard read matched objects; the
\* workers created are those of all the wildcard reads and of these channels
C30_FirstDeclaredCountsChannels ==
    SeveralWildcardReads =>
       /\ \A k \in OtherFiles(1) :
             Cardinality(Holding(cluster_config[1].file_list[k].device)) = FirstMatched
       /\ Workers = UNION {Holding(cluster_config[1].file_list[k].device) :
                              k \in 1..Len(cluster_config[1].file_list)}

\* the first wildcard read matched one object, the second two, and the
\* stdout channel of the node went to a third worker
C30_Witness ==
    /\ SeveralWildcardReads
    /\ cluster_config[1].file_list[1] = Files.ReadStar
    /\ cluster_config[1].file_list[2] = Files.ReadStar2
    /\ Holding("stdin") = {"a-1"}
    /\ Holding("input") = {"a-1", "a-2"}
    /\ Holding("stdout") = {"a"}

\* the workers holding a channel that job node i's file entry k expanded to:
\* same device, and a path that fills the entry's pattern
Expansions(i, k) ==
    LET f == cluster_config[i].file_list[k]
    IN {w \in Workers :
          \E c \in 1..Len(nodes[w].channels) :
             LET chan == nodes[w].channels[c]
             IN /\ chan.device = f.device
                /\ is_swift_path(chan.path)
                /\ Len(chan.path.url) = Len(f.path.url)
                /\ \A j \in 1..Len(f.path.url) :
                      f.path.url[j] # Star => chan.path.url[j] = f.path.url[j]}

\* the job is one node with one wildcard read and count > 1, and it is parsed
WildcardReadWithCount ==
    /\ parse_pc = "done"
    /\ Len(cluster_config) = 1
    /\ cluster_config[1].count > 1
    /\ Cardinality(WildcardReads(1)) = 1

\* C31: for a node with a wildcard read and count > 1 the workers are exactly
\* name-1..name-M, M the number of objects the wildcard matched.
C31_WildcardOverridesCount ==
    WildcardReadWithCount =>
       LET M == Cardinality(Expansions(1, First(WildcardReads(1))))
       IN Workers = {create_node_name(cluster_config[1].name, j) : j \in 1..M}

\* what holds of it: the workers holding an expansion of the wildcard read
\* are name-1..name-M
C31_ExpansionsAreIndexed ==
    WildcardReadWithCount =>
       LET M == Cardinality(Expansions(1, First(WildcardReads(1))))
       IN Expansions(1, First(WildcardReads(1)))
             = {create_node_name(cluster_config[1].name, j) : j \in 1..M}

\* count 2, the wildcard read matched one object, and the read declared after
\* it went to two workers
C31_Witness ==
    /\ WildcardReadWithCount
    /\ cluster_config[1].file_list = <<Files.ReadStar, Files.ReadOther>>
    /\ Expansions(1, 1) = {"a-1"}
    /\ Workers = {"a-1", "a-2"}

\* ------------------------------------------------------ channel order claims
\* the channel is what the file entry f was expanded to
IsExpansion(chan, f) ==
    /\ chan.device = f.device
    /\ is_swift_path(chan.path)
    /\ Len(chan.path.url) = Len(f.path.url)
    /\ \A j \in 1..Len(f.path.url) : f.path.url[j] # Star => chan.path.url[j] = f.path.url[j]

\* the places of the READ entries in the file_list of job node i
ReadEntries(i) ==
    {k \in 1..Len(cluster_config[i].file_list) :
        LET f == cluster_config[i].file_list[k]
        IN /\ is_swift_path(f.path)
           /\ DeviceAccess(f.device) # UnknownAccess
           /\ BitAnd(DeviceAccess(f.device), ACCESS_READABLE) # 0}

Last(S) == IF S = {} THEN 0 ELSE CHOOSE i \in S : \A j \in S : j <= i

\* a job of one node with several READ entries is parsed
SeveralReads ==
    /\ parse_pc = "done"
    /\ Len(cluster_config) = 1
    /\ Cardinality(ReadEntries(1)) >= 2

\* C32: the top channel (channels[0]) of every worker is the node's first
\* declared READ channel, and its path is the worker's path_info.
C32_TopIsFirstDeclaredRead ==
    SeveralReads =>
       \A w \in Expansions(1, First(ReadEntries(1))) :
          /\ IsExpansion(nodes[w].channels[1], cluster_config[1].file_list[First(ReadEntries(1))])
          /\ account_name # "" => nodes[w].path_info = nodes[w].channels[1].path.url

\* what holds instead: the top channel of a worker that holds the last
\* declared READ channel is that channel
C32_TopIsLastDeclaredRead ==
    SeveralReads =>
       \A w \in Expansions(1, Last(ReadEntries(1))) :
          /\ IsExpansion(nodes[w].channels[1], cluster_config[1].file_list[Last(ReadEntries(1))])
          /\ account_name # "" => nodes[w].path_info = nodes[w].channels[1].path.url

\* stdin declared before input, and input is the top channel
C32_Witness ==
    /\ SeveralReads
    /\ account_name # ""
    /\ cluster_config[1].file_list = <<Files.ReadStar, Files.ReadOther>>
    /\ nodes["a-1"].channels[1].device = "input"
    /\ nodes["a-1"].channels[2].device = "stdin"
    /\ nodes["a-1"].path_info = <<"in/z">>

\* ------------------------------------------------------------------ C33
\* the device a zvm path of node i names on the peer, as stored at line 572
RemoteDevice(i, peer) == connect_devices[cluster_config[i].name][peer].dst

\* the peers of node i that its workers are wired to through a zvm path
DialedPeers(i) ==
    {p \in Discovered(i) : Declared(i) = {} \/ p \in Declared(i)}

\* the remote device of the path after projection with the captures of `worker`
Projected(worker, i, peer) == resolve_wildcards(nodes[worker], RemoteDevice(i, peer)).value

\* C33 as claimed: after a successful parse, the remote device pattern of a
\* zvm path is bound on every peer worker P projected with the captures
\* stored on P itself, each member of a peer group with its own captures.
C33_ProjectedWithPeerCaptures ==
    (parse_pc = "done" /\ NoNameClash) =>
       \A i \in 1..Len(cluster_config) : \A peer \in DialedPeers(i) :
          \A A \in WorkersOf(cluster_config[i].name) :
             \A P \in WorkersOf(peer) \ {A} :
                <<A, Projected(P, i, peer)>> \in Entries(nodes[P].bind)

\* C33: after a successful parse, the remote device pattern of a zvm path is
\* bound on every peer worker projected with the captures of the connecting
\* worker (each '*' takes one capture in order, none is left over), the same
\* device on every member of a peer group.
C33_ProjectedWithOwnCaptures ==
    (parse_pc = "done" /\ NoNameClash) =>
       \A i \in 1..Len(cluster_config) : \A peer \in DialedPeers(i) :
          \A A \in WorkersOf(cluster_config[i].name) :
             \A P \in WorkersOf(peer) \ {A} :
                /\ ~HasStar(Projected(A, i, peer))
                /\ {nodes[P].bind[k][2] : k \in Naming(nodes[P].bind, A)}
                      = {Projected(A, i, peer)}

\* a parsed job whose worker a-1 holds the capture "x" and dials /dev/in/* on
\* the workers b-1 and b-2, which hold other captures of their own
C33_Witness ==
    /\ parse_pc = "done"
    /\ NoNameClash
    /\ \E i \in 1..Len(cluster_config) :
          /\ cluster_config[i].name = "a"
          /\ "b" \in DialedPeers(i)
          /\ HasStar(RemoteDevice(i, "b"))
    /\ {"a-1", "b-1", "b-2"} \subseteq Workers
    /\ nodes["a-1"].wildcards = <<"x">>
    /\ nodes["b-2"].wildcards # <<"x">>
    /\ <<"a-1", <<"/dev/in/", "x">> >> \in Entries(nodes["b-2"].bind)

\* ------------------------------------------------------------------ C34
\* C34 as claimed: after a successful parse, with or without an account
\* name, no worker has replicate 0 and total_count is the sum of the workers'
\* replicate values.
C34_NoZeroReplicate ==
    parse_pc = "done" =>
       /\ \A n \in Workers : nodes[n].replicate # 0
       /\ total_count = SumOver(Workers)

\* what holds: the promotion is part of resolve_path_info, so it is made when
\* an account name was given; total_count is the sum in either case
C34_NoZeroReplicateWithAccount ==
    parse_pc = "done" =>
       /\ account_name # "" => \A n \in Workers : nodes[n].replicate >= 1
       /\ account_name = "" =>
             \A i \in 1..Len(cluster_config) :
                \A n \in WorkersOf(cluster_config[i].name) :
                   NoNameClash => nodes[n].replicate = cluster_config[i].replicate
       /\ total_count = SumOver(Workers)

\* a job whose first node has replicate 0, parsed without an account name:
\* its workers keep replicate 0 and add nothing to total_count
C34_Witness ==
    /\ parse_pc = "done"
    /\ account_name = ""
    /\ cluster_config[1].replicate = 0
    /\ \A n \in WorkersOf(cluster_config[1].name) : nodes[n].replicate = 0
    /\ total_count = SumOver(Workers \ WorkersOf(cluster_config[1].name))

\* ------------------------------------------------------------------ C35
\* the ids of the worker named n and of its replicas
IdsOf(n) == {nodes[n].id} \cup Entries(node_replicas[n])

\* the workers and replicas there are, a replica by its place in node.replicas
WorkersAndReplicas == UNION {{<<n, k>> : k \in 0..Len(node_replicas[n])} : n \in Workers}

IdOfCopy(c) == IF c[2] = 0 THEN nodes[c[1]].id ELSE node_replicas[c[1]][c[2]]

\* the tcp ids of a rendered bind or connect entry
TcpIds(entry) == {entry.proto[k][2] : k \in 1..Len(entry.proto)}

\* C35: when POST has rendered the connect strings and made the replicas of
\* a job run with a name service, the ids of all workers and replicas are
\* pairwise distinct, there are total_count of them, and the tcp ids of every
\* bind and connect entry are the ids of the peer it names and of that
\* peer's replicas.
C35_IdsDistinctAndRendered ==
    [][(parse_pc = "done" /\ parse_pc' = "built") =>
          /\ \A c1 \in WorkersAndReplicas', c2 \in WorkersAndReplicas' :
                c1 # c2 => IdOfCopy(c1)' # IdOfCopy(c2)'
          /\ Cardinality(WorkersAndReplicas') = total_count
          /\ \A n \in Workers :
                \A peer \in Workers :
                   /\ \A k \in Naming(nodes[n].bind, peer) :
                         TcpIds(nodes'[n].bind[k]) = IdsOf(peer)'
                   /\ \A k \in Naming(nodes[n].connect, peer) :
                         TcpIds(nodes'[n].connect[k]) = IdsOf(peer)']_vars

\* a rendered job of three workers or more in which a worker with a replica
\* is bound to by a peer: the entry carries the worker's id and its replica's
C35_Witness ==
    /\ parse_pc = "built"
    /\ Cardinality(Workers) >= 3
    /\ \E n \in Workers, p \in Workers :
          /\ Len(node_replicas[p]) = 1
          /\ \E k \in 1..Len(nodes[n].connect) :
                TcpIds(nodes[n].connect[k]) = IdsOf(p)

\* ------------------------------------------------------------------ C37
\* the workers made of job node i, with or without an index
CreatedFrom(i) ==
    ({cluster_config[i].name} \cap Workers) \cup GroupOf(cluster_config[i].name, 1)

\* the file entries of job node i that are channels of its workers
ChannelEntries(i) ==
    {k \in 1..Len(cluster_config[i].file_list) :
        ~is_zvm_path(cluster_config[i].file_list[k].path)}

\* the devices of the channels a worker got from its file entries
DevicesOf(w) ==
    [k \in 1..(Len(nodes[w].channels) - (IF add_user_image THEN 1 ELSE 0)) |->
        nodes[w].channels[k].device]

\* the worker holds one channel for each channel entry of job node i
CarriesAll(w, i) ==
    /\ Len(DevicesOf(w)) = Cardinality(ChannelEntries(i))
    /\ \A k \in ChannelEntries(i) :
          InSeq(cluster_config[i].file_list[k].device, DevicesOf(w))

\* C37 as claimed: after a successful parse every worker made of a job node
\* holds one channel for each file entry of the node that is not an
\* inter-node channel; the channels are not split between workers.
C37_WorkersCarryAllChannels ==
    (parse_pc = "done" /\ NoNameClash) =>
       \A i \in 1..Len(cluster_config) : \A w \in CreatedFrom(i) : CarriesAll(w, i)

\* what holds: every channel entry of a node is held by a worker made of it,
\* and no worker holds a channel its node did not declare
C37_ChannelsAreHeldSomewhere ==
    (parse_pc = "done" /\ NoNameClash) =>
       \A i \in 1..Len(cluster_config) :
          /\ \A k \in ChannelEntries(i) : \E w \in CreatedFrom(i) :
                InSeq(cluster_config[i].file_list[k].device, DevicesOf(w))
          /\ \A w \in CreatedFrom(i) : \A d \in Entries(DevicesOf(w)) :
                \E k \in ChannelEntries(i) : cluster_config[i].file_list[k].device = d

\* a parsed job of one node a with a wildcard read that matched one object
\* and a stdout channel: a-1 holds the read, a the stdout channel
C37_Witness ==
    /\ parse_pc = "done"
    /\ Len(cluster_config) = 1
    /\ Workers = {"a", "a-1"}
    /\ Cardinality(ChannelEntries(1)) = 2
    /\ Len(DevicesOf("a")) = 1
    /\ Len(DevicesOf("a-1")) = 1

\* ------------------------------------------------------------------ C38
\* the listener received a datagram in this step
Received == ndgrams' = ndgrams + 1

\* the step ends the listener by stop(): nothing else of the service changes
Stopped ==
    /\ ns_thread' = "killed"
    /\ UNCHANGED <<peers, bind_map, conn_map, peer_map, sent, ndgrams>>

\* peer p is sent a reply in this step
SentNow(p) == \E k \in (Len(sent) + 1)..Len(sent') : sent'[k].peer = p

\* the connect slots of the buffer stored for peer p can be resolved
Buildable(cm, p, bm, pm) ==
    ResolveSlots(cm[p].reply, p, cm[p].offset + 1, cm[p].connect_count, bm, pm).ok

\* the reply loop ran in this step and got as far as a reply or a slot
LoopRan ==
    /\ Received
    /\ AllRegistered(peer_map', peers)
    /\ sent' # sent \/ conn_map' # conn_map \/ peer_map' # peer_map

\* C38 as claimed: the listener is running after every datagram it received
\* and ends only through stop(), and when the reply loop runs, a reply that
\* cannot be built does not keep the other registered peers from being sent
\* theirs.
C38_ListenerSurvivesAndServesTheRest ==
    [][/\ Received => ns_thread' = "running"
       /\ ns_thread' # ns_thread => (ns_thread = "running" /\ Stopped)
       /\ LoopRan =>
             \A p \in DOMAIN peer_map' :
                SentNow(p) \/ ~Buildable(conn_map', p, bind_map', peer_map')]_vars

\* what holds: the listener is running after every datagram, truncated or
\* unresolvable ones included, and ends only through stop()
C38_ListenerSurvives ==
    [][/\ Received => ns_thread' = "running"
       /\ ns_thread' # ns_thread => (ns_thread = "running" /\ Stopped)]_vars

\* both peers are registered, peer 1 with a connect slot for peer 2, which
\* declared no bind port: no reply was sent and the listener is running
C38_Witness ==
    /\ ns_thread = "running"
    /\ DOMAIN peer_map = PeerIds
    /\ reg[1].msg = Msg(1, 0, 1, <<(<<2, 0>>)>>)
    /\ reg[2].msg = Msg(2, 0, 0, <<>>)
    /\ sent = <<>>
    /\ ndgrams = 2

\* ------------------------------------------------------------------ C36
\* the rounds of the loop of parse_daemon_config
DaemonRounds == 1..(Len(daemon_list) \div 2)

\* the config the socket id is loaded from: what the file of the first pair
\* that names it gives
ConfigOf(sock) ==
    LET first == CHOOSE k \in DaemonRounds :
                    /\ daemon_list[2 * k - 1] = sock
                    /\ \A j \in DaemonRounds : daemon_list[2 * j - 1] = sock => k <= j
    IN ConfigFiles[daemon_list[2 * first]]

\* the entries of the returned list made for the socket id
EntriesOf(sock) == {k \in 1..Len(daemon_result) : daemon_result[k][1] = sock}

\* the node is fit to be a daemon
DaemonFit(node) ==
    /\ node.bind = <<>>
    /\ node.connect = <<>>
    /\ is_image_path(node.exe)
    /\ node.exe.image \in sysimage_devices

\* C36 as claimed: the list parse_daemon_config returns holds an entry for a
\* socket id only if its config plans exactly one node, that node has no bind
\* or connect entries and its executable is a member of a configured
\* system-image device; a config of several nodes adds no entry, and a
\* socket id is loaded once at most.
C36_OnlySingleNodeDaemons ==
    daemon_pc = "returned" =>
       \A sock \in DaemonSocks :
          /\ Cardinality(EntriesOf(sock)) <= 1
          /\ \A k \in EntriesOf(sock) :
                /\ ConfigOf(sock).kind = "nodes"
                /\ Cardinality(DOMAIN ConfigOf(sock).nodes) = 1
                /\ DaemonFit(daemon_result[k][2])

\* what holds: every entry is a fit node of the first config given for its
\* socket id, and every fit node of that config has an entry
C36_EveryFitNodeIsLoaded ==
    daemon_pc = "returned" =>
       \A sock \in DaemonSocks :
          /\ \A k \in EntriesOf(sock) :
                /\ ConfigOf(sock).kind = "nodes"
                /\ DaemonFit(daemon_result[k][2])
                /\ daemon_result[k][2].name \in DOMAIN ConfigOf(sock).nodes
          /\ (sock \in socks /\ ConfigOf(sock).kind = "nodes") =>
                Cardinality(EntriesOf(sock)) =
                   Cardinality({n \in DOMAIN ConfigOf(sock).nodes :
                                   DaemonFit(ConfigOf(sock).nodes[n])})

\* the list returned for one socket id whose config plans two unconnected
\* nodes: the warning was logged and both nodes were loaded
C36_Witness ==
    /\ daemon_pc = "returned"
    /\ daemon_list = <<"s1", "pair">>
    /\ InSeq("too many nodes", daemon_log)
    /\ Cardinality(EntriesOf("s1")) = 2

\* ------------------------------------------------------------------ C39
\* the key the request handled last is about
RequestKey ==
    SharedKey(IF whitelist_url # "" /\ IsGoogleId(WhitelistId(shared_request.account))
              THEN WhitelistId(shared_request.account) ELSE shared_request.account,
              shared_request.container)

\* every key but `key` is stored after the step as it was before
OthersKept(key) ==
    /\ DOMAIN shared_meta' \ {key} = DOMAIN shared_meta \ {key}
    /\ \A k \in DOMAIN shared_meta \ {key} : shared_meta'[k] = shared_meta[k]

\* a request without an authenticated user is answered 401, a drop-share of
\* a key that is not stored 404, and neither stores anything
Refusals ==
    LET req == shared_request'
    IN /\ req.remote_user = "" => (shared_status' = 401 /\ shared_meta' = shared_meta)
       /\ (req.remote_user # "" /\ req.version = shared_container_remove
              /\ RequestKey' \notin DOMAIN shared_meta) =>
             (shared_status' = 404 /\ shared_meta' = shared_meta)

\* C39 as claimed: after a request of an authenticated user the key it names
\* is stored exactly when the request was a load-share that succeeded, the
\* other keys are untouched, and the refusals store nothing.
C39_LastRequestDecides ==
    [][/\ Refusals
       /\ shared_request'.remote_user # "" =>
             /\ OthersKept(RequestKey')
             /\ RequestKey' \in DOMAIN shared_meta' <=>
                   (shared_request'.version = shared_container_add /\ shared_status' = 200)
      ]_vars

\* C39: after a request of an authenticated user that was answered 200 the
\* key it names is stored exactly when the request was a load-share; a
\* request answered otherwise leaves the stored metadata as it was, the other
\* keys are untouched in either case, and the refusals are as claimed.
C39_LastSuccessfulRequestDecides ==
    [][/\ Refusals
       /\ shared_request'.remote_user # "" =>
             /\ OthersKept(RequestKey')
             /\ shared_status' = 200 =>
                   (RequestKey' \in DOMAIN shared_meta' <=>
                       shared_request'.version = shared_container_add)
             /\ shared_status' # 200 => shared_meta' = shared_meta
      ]_vars

\* a drop-share of a stored key by the authenticated user that was answered
\* 404 because the metadata could not be stored: the key is still there
C39_Witness ==
    /\ shared_request.remote_user = "alice"
    /\ shared_request.version = shared_container_remove
    /\ shared_status = 404
    /\ RequestKey \in DOMAIN shared_meta

====
